---------------------------- MODULE Spec2Model ----------------------------
(***************************************************************************)
(* Model of llmdump: the category operations of src/src/lib/processing.ts, *)
(* the document assembler (writeDocumentsToFile) and the interactive       *)
(* category view of src/src/cli.ts (prune and split).                      *)
(*                                                                         *)
(* Data representation                                                     *)
(*   string            a TLA+ string; NULL stands for JavaScript undefined *)
(*                     and "" for the empty string (both are falsy)        *)
(*   category name     a sequence of one-character strings, so that        *)
(*                     toLowerCase and replace(/\s+/g, "_") are computed   *)
(*   Category          [category |-> name, refUrls |-> sequence of urls]   *)
(*   CategorySchema    the sequence held in its .categories field          *)
(*   CrawlStatusResponse  the sequence held in its .data field; a document *)
(*                     is [url, title, markdown] (metadata.url,            *)
(*                     metadata.title, markdown)                           *)
(***************************************************************************)
EXTENDS Integers, Sequences, FiniteSets, TLC

VARIABLES
  call,             \* operation applied to drawn inputs: its name and arguments
  ret,              \* its progress and return value
  pc,               \* cli.ts: the menu or handler the program is in
  crawlResult,      \* cli.ts global crawlResult
  categories,       \* cli.ts global categories
  identifier,       \* cli.ts global identifier
  disk,             \* the files of .data/current-crawl
  currentIndex,     \* viewExpandedCategories: currentIndex (0-based)
  categoryContent,  \* viewExpandedCategories: categoryContent
  action,           \* viewExpandedCategories: the action chosen at the prompt
  message,          \* viewExpandedCategories: what the handler last reported
  fsWrites,         \* fs.writeFile calls of writeDocumentsToFile, in order
  cleanupCalls      \* documents handed to the cleanup oracle, in order

opVars == <<call, ret, fsWrites, cleanupCalls>>

cliVars == <<pc, crawlResult, categories, identifier, disk, currentIndex,
             categoryContent, action, message>>

ioVars == <<fsWrites, cleanupCalls>>

vars == <<call, ret, pc, crawlResult, categories, identifier, disk,
          currentIndex, categoryContent, action, message, fsWrites,
          cleanupCalls>>

---------------------------------------------------------------------------
(* Bounds of the model *)

\* longest refUrls list drawn as an input of the pure functions
MaxRefUrls == 2
\* largest category set drawn as an input of the pure functions
MaxCats == 2
\* largest crawl result drawn as an input of the pure functions
MaxDocs == 2
\* longest urlsToRemove list drawn as an input of pruneUrlsFromCategory
MaxRemove == 2
\* largest oracle response drawn as an input of the split merge loop
MaxNew == 2
\* largest response of the classification oracle in a session
MaxOracleCats == 2
\* largest category set a session may grow to (splits stop being offered)
MaxSessionCats == 2
\* largest category set drawn as an input of writeDocumentsToFile
MaxWriteCats == 2
\* longest refUrls list drawn as an input of writeDocumentsToFile
MaxWriteRefs == 2

\* categories of a long export
MaxManyCats == 3

\* characters of a content whose tokens are estimated
MaxContentLen == 5

\* refUrls of a category, and categories, whose tokens are estimated
MaxTokenRefs == 2

MaxTokenCats == 2

\* documents given to the oracles
MaxSites == 2

\* categories before a split, and categories the oracle returns for it
MaxSplitCats == 2

MaxSplitNew == 2

\* crawl directories created in the history of the pointer-based store
MaxCrawls == 2

MaxSaves == 2

MaxArchives == 2

---------------------------------------------------------------------------
(* JavaScript values *)

NULL == "<undefined>"

Falsy(x) == x = NULL \/ x = ""

\* String.prototype.toLowerCase, per character
LowerChar(c) ==
  CASE c = "A" -> "a"
    [] c = "B" -> "b"
    [] OTHER -> c

toLowerCase(s) == [i \in 1..Len(s) |-> LowerChar(s[i])]

\* Array.prototype.includes
includes(arr, x) == \E i \in 1..Len(arr) : arr[i] = x

\* all sequences over S of length at most n
SeqUpTo(S, n) == UNION {[1..k -> S] : k \in 0..n}

\* the result of a find that matches nothing: every optional-chained field
\* read of it (siteData?.metadata?.title, siteData?.markdown) is undefined
NoDoc == [url |-> NULL, title |-> NULL, markdown |-> NULL]

\* Array.prototype.find with the predicate (d) => d.metadata?.url === u:
\* the first document whose url is u, or NoDoc
findByUrl(data, u) ==
  IF \E k \in 1..Len(data) : data[k].url = u
  THEN data[CHOOSE k \in 1..Len(data) :
              /\ data[k].url = u
              /\ \A j \in 1..(k - 1) : data[j].url # u]
  ELSE NoDoc

---------------------------------------------------------------------------
(* src/src/lib/processing.ts: category operations *)

\* sanitizeCategories with the comparison "=== u" dropped from the find
\* predicate: an entry is kept as soon as any document has a url
sanitizeCategoriesNoCompare(cats, data) ==
  [i \in 1..Len(cats) |->
     [cats[i] EXCEPT !.refUrls =
        SelectSeq(cats[i].refUrls,
                  LAMBDA u : \E k \in 1..Len(data) :
                                ~Falsy(data[k].url))]]

\* the entries of refUrls from position j on that equal the url of the
\* document at their own position
RECURSIVE KeepPositional(_, _, _)
KeepPositional(refUrls, data, j) ==
  IF j > Len(refUrls) THEN <<>>
  ELSE (IF j <= Len(data) /\ data[j].url = refUrls[j]
        THEN <<refUrls[j]>> ELSE <<>>)
       \o KeepPositional(refUrls, data, j + 1)

\* sanitizeCategories looking an entry up at its own index
\* (crawlResult.data[i]) instead of searching the documents
sanitizeCategoriesPositional(cats, data) ==
  [i \in 1..Len(cats) |->
     [cats[i] EXCEPT !.refUrls = KeepPositional(cats[i].refUrls, data, 1)]]

\* sanitizeCategories also dropping the categories left without entries
sanitizeCategoriesDropEmpty(cats, data) ==
  SelectSeq([i \in 1..Len(cats) |->
               [cats[i] EXCEPT !.refUrls =
                  SelectSeq(cats[i].refUrls,
                            LAMBDA u : findByUrl(data, u) # NoDoc)]],
            LAMBDA c : c.refUrls # <<>>)

sanitizeCategories(cats, data) ==
  [i \in 1..Len(cats) |->
     [cats[i] EXCEPT !.refUrls =
        SelectSeq(cats[i].refUrls,
                  LAMBDA u : findByUrl(data, u) # NoDoc)]]

\* pruneUrlsFromCategory with the negation of includes dropped
pruneUrlsKeepListed(cats, categoryName, urlsToRemove) ==
  [i \in 1..Len(cats) |->
     IF cats[i].category = categoryName
     THEN [cats[i] EXCEPT !.refUrls =
             SelectSeq(cats[i].refUrls,
                       LAMBDA url : includes(urlsToRemove, url))]
     ELSE cats[i]]

\* pruneUrlsFromCategory comparing the category name ignoring case
pruneUrlsIgnoreCase(cats, categoryName, urlsToRemove) ==
  [i \in 1..Len(cats) |->
     IF toLowerCase(cats[i].category) = toLowerCase(categoryName)
     THEN [cats[i] EXCEPT !.refUrls =
             SelectSeq(cats[i].refUrls,
                       LAMBDA url : ~includes(urlsToRemove, url))]
     ELSE cats[i]]

pruneUrlsFromCategory(cats, categoryName, urlsToRemove) ==
  [i \in 1..Len(cats) |->
     IF cats[i].category = categoryName
     THEN [cats[i] EXCEPT !.refUrls =
             SelectSeq(cats[i].refUrls,
                       LAMBDA url : ~includes(urlsToRemove, url))]
     ELSE cats[i]]

---------------------------------------------------------------------------
(* src/src/cli.ts: viewExpandedCategories, case "split"                    *)
(* currentCategory is the object at position cur of categories.categories; *)
(* the loop only pushes and assigns refUrls in place, so the object stays  *)
(* at that position until the filter, and (c !== currentCategory) is       *)
(* (position # cur).                                                       *)

\* [...new Set(arr)]: the first occurrence of each element, in order
RECURSIVE SetSpread(_)
SetSpread(arr) ==
  IF arr = <<>> THEN <<>>
  ELSE LET init == SetSpread(SubSeq(arr, 1, Len(arr) - 1))
           last == arr[Len(arr)]
       IN IF includes(init, last) THEN init ELSE Append(init, last)

\* the find predicate comparing the names as they are
MergeMatchesExact(cats, cur, newCat) ==
  {i \in 1..Len(cats) :
     /\ cats[i].category = newCat.category
     /\ i # cur}

\* the find predicate accepting the category being split as well
MergeMatchesAny(cats, cur, newCat) ==
  {i \in 1..Len(cats) :
     toLowerCase(cats[i].category) = toLowerCase(newCat.category)}

\* positions that the find predicate of the merge loop accepts
MergeMatches(cats, cur, newCat) ==
  {i \in 1..Len(cats) :
     /\ toLowerCase(cats[i].category) = toLowerCase(newCat.category)
     /\ i # cur}

Min(S) == CHOOSE x \in S : \A y \in S : x <= y

\* the merge with concatenation in place of the Set union
MergeStepConcat(cats, cur, newCat) ==
  IF MergeMatches(cats, cur, newCat) # {}
  THEN LET i == Min(MergeMatches(cats, cur, newCat))
       IN [cats EXCEPT ![i].refUrls = cats[i].refUrls \o newCat.refUrls]
  ELSE Append(cats, newCat)

\* one iteration of "for (const newCat of newCategories.categories)"
MergeStep(cats, cur, newCat) ==
  IF MergeMatches(cats, cur, newCat) # {}
  THEN LET i == Min(MergeMatches(cats, cur, newCat))
       IN [cats EXCEPT ![i].refUrls =
             SetSpread(cats[i].refUrls \o newCat.refUrls)]
  ELSE Append(cats, newCat)

\* the whole for loop
RECURSIVE MergeLoop(_, _, _)
MergeLoop(cats, cur, newCats) ==
  IF newCats = <<>> THEN cats
  ELSE MergeLoop(MergeStep(cats, cur, Head(newCats)), cur, Tail(newCats))

\* the filter that forgets to remove the split category
KeepOriginal(cats, cur) == cats

\* categories.categories.filter((c) => c !== currentCategory)
RemoveOriginal(cats, cur) ==
  [i \in 1..(Len(cats) - 1) |-> IF i < cur THEN cats[i] ELSE cats[i + 1]]

---------------------------------------------------------------------------
(* Operations applied to drawn inputs *)

PureUrls == {"u1", "u2"}

PureNames == {<<"A">>, <<"a">>}

\* a category name that may be absent from every drawn category set
PureCallNames == PureNames \cup {<<"B">>}

PureCategory == [category : PureNames, refUrls : SeqUpTo(PureUrls, MaxRefUrls)]

PureCategorySets == SeqUpTo(PureCategory, MaxCats)

PureDoc == [url : {"u1", "u2", NULL}, title : {"T"}, markdown : {"m"}]

PureCrawlResults == SeqUpTo(PureDoc, MaxDocs)

\* categories an oracle response is drawn from in the merge loop
NewCategory == [category : {<<"a">>, <<"B">>}, refUrls : SeqUpTo(PureUrls, 1)]

NoRet == [status |-> "pending"]

\* null / undefined, for values that are objects
Null == [null |-> TRUE]

\* the session is not running while operations are applied to drawn inputs
CliIdle ==
  /\ pc = "off"
  /\ crawlResult = Null
  /\ categories = Null
  /\ identifier = Null
  /\ disk = [crawlResult |-> Null, categories |-> Null,
             originalCategories |-> Null, finalizedCategories |-> Null,
             identifier |-> Null]
  /\ currentIndex = 0
  /\ categoryContent = <<>>
  /\ action = "none"
  /\ message = ""

InitOps ==
  /\ CliIdle
  /\ fsWrites = <<>>
  /\ cleanupCalls = <<>>
  /\ ret = NoRet
  /\ \/ \E C \in PureCategorySets, R \in PureCrawlResults :
          call = [fn |-> "sanitizeCategories", categories |-> C,
                  crawlResult |-> R]
     \/ \E C \in PureCategorySets, n \in PureCallNames,
           r \in SeqUpTo(PureUrls, MaxRemove) :
          call = [fn |-> "pruneUrlsFromCategory", categories |-> C,
                  categoryName |-> n, urlsToRemove |-> r]
     \/ \E C \in PureCategorySets \ {<<>>}, N \in SeqUpTo(NewCategory, MaxNew) :
          \E cur \in 1..Len(C) :
            call = [fn |-> "splitMerge", categories |-> C, cur |-> cur,
                    newCategories |-> N]

CallSanitize ==
  /\ ret = NoRet
  /\ call.fn = "sanitizeCategories"
  /\ ret' = [status |-> "returned",
             value |-> sanitizeCategories(call.categories, call.crawlResult)]
  /\ UNCHANGED <<call, cliVars, ioVars>>

CallPrune ==
  /\ ret = NoRet
  /\ call.fn = "pruneUrlsFromCategory"
  /\ ret' = [status |-> "returned",
             value |-> pruneUrlsFromCategory(call.categories,
                                             call.categoryName,
                                             call.urlsToRemove)]
  /\ UNCHANGED <<call, cliVars, ioVars>>

\* the merge loop of a split enters its first iteration
SplitMergeBegin ==
  /\ ret = NoRet
  /\ call.fn = "splitMerge"
  /\ ret' = [status |-> "loop", k |-> 0, value |-> call.categories]
  /\ UNCHANGED <<call, cliVars, ioVars>>

\* one iteration of the merge loop
SplitMergeIterate ==
  /\ call.fn = "splitMerge"
  /\ ret.status = "loop"
  /\ ret.k < Len(call.newCategories)
  /\ ret' = [status |-> "loop", k |-> ret.k + 1,
             value |-> MergeStep(ret.value, call.cur,
                                 call.newCategories[ret.k + 1])]
  /\ UNCHANGED <<call, cliVars, ioVars>>

\* the loop is over: the split category is filtered out
SplitMergeEnd ==
  /\ call.fn = "splitMerge"
  /\ ret.status = "loop"
  /\ ret.k = Len(call.newCategories)
  /\ ret' = [status |-> "returned", value |-> RemoveOriginal(ret.value, call.cur)]
  /\ UNCHANGED <<call, cliVars, ioVars>>

NextOps ==
  \/ CallSanitize
  \/ CallPrune
  \/ SplitMergeBegin
  \/ SplitMergeIterate
  \/ SplitMergeEnd

SpecOps == InitOps /\ [][NextOps]_vars

Returned(fn) == call.fn = fn /\ ret.status = "returned"

---------------------------------------------------------------------------
(* Vocabulary of the claims about the pure functions *)

Range(seq) == {seq[i] : i \in 1..Len(seq)}

\* the urls of the documents of a crawl result
DocUrls(data) == {data[k].url : k \in 1..Len(data)} \ {NULL}

\* seq with the entries outside S deleted, the others in their order
RECURSIVE Restrict(_, _)
Restrict(seq, S) ==
  IF seq = <<>> THEN <<>>
  ELSE IF Head(seq) \in S THEN <<Head(seq)>> \o Restrict(Tail(seq), S)
       ELSE Restrict(Tail(seq), S)

\* number of positions of seq holding a member of S
CountIn(seq, S) == Cardinality({j \in 1..Len(seq) : seq[j] \in S})

HasName(cats, n) == \E i \in 1..Len(cats) : cats[i].category = n

\* C1: sanitizeCategories(C, R) keeps in each category exactly the refUrls
\* entries that are the url of some document of R, in their original order,
\* so every entry of the result resolves to a document of R.
C1_SanitizeKeepsResolvable ==
  Returned("sanitizeCategories") =>
    LET C == call.categories
        R == call.crawlResult
        out == ret.value
    IN /\ Len(out) = Len(C)
       /\ \A i \in 1..Len(C) :
            /\ out[i].refUrls = Restrict(C[i].refUrls, DocUrls(R))
            /\ \A j \in 1..Len(out[i].refUrls) :
                 \E k \in 1..Len(R) : R[k].url = out[i].refUrls[j]

\* a sanitize that dropped a dangling entry and kept a resolvable one of the
\* same category
C1_Witness ==
  /\ Returned("sanitizeCategories")
  /\ \E i \in 1..Len(call.categories) :
       /\ Len(ret.value[i].refUrls) = 1
       /\ Len(call.categories[i].refUrls) = 2
       /\ call.categories[i].refUrls[1] \notin DocUrls(call.crawlResult)

\* C2 as stated: pruneUrlsFromCategory removes exactly the listed URLs from
\* the named category and leaves
\* original_length - |urlsToRemove \cap original_refUrls| entries.
C2_PruneLengthBySetIntersection ==
  (Returned("pruneUrlsFromCategory") /\ HasName(call.categories, call.categoryName)) =>
    LET C == call.categories
        out == ret.value
        rm == Range(call.urlsToRemove)
    IN \A i \in 1..Len(C) :
         C[i].category = call.categoryName =>
           /\ out[i].refUrls = Restrict(C[i].refUrls, Range(C[i].refUrls) \ rm)
           /\ Len(out[i].refUrls) =
                Len(C[i].refUrls) - Cardinality(rm \cap Range(C[i].refUrls))

\* C2 (amended): pruneUrlsFromCategory removes exactly the listed URLs from
\* the named category, the others stay in order, and the resulting length is
\* the original length minus the number of refUrls entries, counted with
\* multiplicity, that are listed in urlsToRemove.
C2_PruneRemovesListed ==
  (Returned("pruneUrlsFromCategory") /\ HasName(call.categories, call.categoryName)) =>
    LET C == call.categories
        out == ret.value
        rm == Range(call.urlsToRemove)
    IN \A i \in 1..Len(C) :
         C[i].category = call.categoryName =>
           /\ out[i].refUrls = Restrict(C[i].refUrls, Range(C[i].refUrls) \ rm)
           /\ Len(out[i].refUrls) = Len(C[i].refUrls) - CountIn(C[i].refUrls, rm)

\* a prune of a category holding the same URL twice, removing that URL
C2_Witness ==
  /\ Returned("pruneUrlsFromCategory")
  /\ \E i \in 1..Len(call.categories) :
       /\ call.categories[i].category = call.categoryName
       /\ call.categories[i].refUrls = <<"u1", "u1">>
       /\ call.urlsToRemove = <<"u1">>
       /\ ret.value[i].refUrls = <<>>

\* C3: pruneUrlsFromCategory leaves every category whose name differs
\* (case-sensitively) from categoryName equal to the original, keeps the
\* number and order of the categories, and returns a set equal to its input
\* when urlsToRemove is empty or categoryName names no category.
C3_PruneFrame ==
  Returned("pruneUrlsFromCategory") =>
    LET C == call.categories
        out == ret.value
    IN /\ Len(out) = Len(C)
       /\ \A i \in 1..Len(C) :
            /\ out[i].category = C[i].category
            /\ C[i].category # call.categoryName => out[i] = C[i]
       /\ (call.urlsToRemove = <<>> \/ ~HasName(C, call.categoryName)) => out = C

\* a prune that empties the named category while a category whose name
\* differs only in case holds a listed URL
C3_Witness ==
  /\ Returned("pruneUrlsFromCategory")
  /\ Len(call.categories) = 2
  /\ call.categories[1].category = call.categoryName
  /\ call.categories[1].refUrls # <<>>
  /\ ret.value[1].refUrls = <<>>
  /\ call.categories[2].category # call.categoryName
  /\ toLowerCase(call.categories[2].category) = toLowerCase(call.categoryName)
  /\ \E j \in 1..Len(call.categories[2].refUrls) :
       includes(call.urlsToRemove, call.categories[2].refUrls[j])

NoDup(seq) == \A i, j \in 1..Len(seq) : seq[i] = seq[j] => i = j

\* C4: in each iteration of the merge loop of a split, if a category other
\* than the one being split has a name equal to the new category's ignoring
\* case, the first such category gets the union of both refUrls with no URL
\* twice and the new category is not added; otherwise the new category is
\* appended as it is.
C4_SplitMergeOrAppend ==
  [][(call.fn = "splitMerge" /\ ret.status = "loop" /\ ret'.status = "loop") =>
       LET cats == ret.value
           after == ret'.value
           N == call.newCategories[ret'.k]
           matches == {i \in 1..Len(cats) :
                         /\ i # call.cur
                         /\ toLowerCase(cats[i].category) = toLowerCase(N.category)}
       IN IF matches # {}
          THEN /\ Len(after) = Len(cats)
               /\ \E i \in matches :
                    /\ \A m \in matches : i <= m
                    /\ after[i].category = cats[i].category
                    /\ Range(after[i].refUrls) =
                         Range(cats[i].refUrls) \cup Range(N.refUrls)
                    /\ NoDup(after[i].refUrls)
                    /\ \A j \in 1..Len(cats) : j # i => after[j] = cats[j]
          ELSE after = Append(cats, N)]_vars

\* the loop has merged a new category into an existing one that already
\* held one of its URLs, and has appended another
C4_Witness ==
  /\ call.fn = "splitMerge"
  /\ ret.status = "loop"
  /\ ret.k = 2
  /\ Len(ret.value) = Len(call.categories) + 1
  /\ \E i \in 1..Len(call.categories) :
       /\ i # call.cur
       /\ ret.value[i].refUrls # call.categories[i].refUrls
       /\ \E N \in Range(call.newCategories) :
            /\ toLowerCase(N.category) = toLowerCase(call.categories[i].category)
            /\ Range(N.refUrls) \cap Range(call.categories[i].refUrls) # {}

\* position in the result of a split of the category at position i # cur
Shifted(i, cur) == IF i < cur THEN i ELSE i - 1

\* the category at position i (not the split one) is the one the merge loop
\* merges some new category into
MergedInto(pre, cur, N, i) ==
  \E j \in 1..Len(N) :
    /\ toLowerCase(pre[i].category) = toLowerCase(N[j].category)
    /\ \A m \in 1..(i - 1) :
         m # cur => toLowerCase(pre[m].category) # toLowerCase(N[j].category)

\* lower-cased names of the new categories that match no category but the
\* split one: each of them adds one category
AppendedNames(pre, cur, N) ==
  {toLowerCase(N[j].category) : j \in 1..Len(N)} \
    {toLowerCase(pre[i].category) : i \in (1..Len(pre)) \ {cur}}

\* C5: after a split of category S, S is no longer in the category set,
\* whether or not the oracle's categories cover the URLs of S, and every
\* other category that was not merged into is still present, unchanged: the
\* result is the other categories in their order, followed by categories
\* that come from the oracle's response.
C5_SplitRemovesOriginal ==
  Returned("splitMerge") =>
    LET pre == call.categories
        cur == call.cur
        N == call.newCategories
        post == ret.value
    IN /\ Len(post) = Len(pre) - 1 + Cardinality(AppendedNames(pre, cur, N))
       /\ \A i \in (1..Len(pre)) \ {cur} :
            /\ post[Shifted(i, cur)].category = pre[i].category
            /\ ~MergedInto(pre, cur, N, i) => post[Shifted(i, cur)] = pre[i]
       /\ \A p \in Len(pre)..Len(post) :
            \E j \in 1..Len(N) :
              /\ post[p].category = N[j].category
              /\ Range(N[j].refUrls) \subseteq Range(post[p].refUrls)

\* a split whose response leaves a URL of the split category in no category,
\* next to a category that is not merged into
C5_Witness ==
  /\ Returned("splitMerge")
  /\ Len(call.categories) = 2
  /\ Len(ret.value) = 2
  /\ ret.value[1] = call.categories[3 - call.cur]
  /\ \E u \in Range(call.categories[call.cur].refUrls) :
       \A p \in 1..Len(ret.value) : u \notin Range(ret.value[p].refUrls)

---------------------------------------------------------------------------
(* src/src/cli.ts: the interactive session                                 *)
(* The archive directory (.data/history) is outside this part of the       *)
(* model: archiving or deleting the current crawl both leave an empty      *)
(* current-crawl directory.                                                *)

\* JSON.stringify / JSON.parse of a value written to / read from a file;
\* the values stored (objects of strings and arrays) survive the round trip
JSONstringify(v) == [json |-> v]

JSONparse(f) == f.json

EmptyDisk ==
  [crawlResult |-> Null, categories |-> Null, originalCategories |-> Null,
   finalizedCategories |-> Null, identifier |-> Null]

\* storage.loadCrawlResult / loadCategories / loadIdentifier: null if missing
load(file) == IF file = Null THEN Null ELSE JSONparse(file)

\* getCurrentCrawlIdIfAny: identifier?.identifier || null
getCurrentCrawlIdIfAny ==
  IF load(disk.identifier) = Null THEN NULL
  ELSE IF Falsy(load(disk.identifier).identifier) THEN NULL
       ELSE load(disk.identifier).identifier

SessionDocs ==
  <<[url |-> "u1", title |-> "T1", markdown |-> "m1"],
    [url |-> "u2", title |-> "T2", markdown |-> "m2"]>>

\* what the crawl provider may return
CrawlProviderResults == {[data |-> <<>>], [data |-> SessionDocs]}

\* what the classification oracle may return: any names, any URLs (also one
\* that is not in the crawl result), at most MaxOracleCats categories
OracleNames == {<<"A">>, <<"B">>}

OracleUrlLists == {<<"g">>, <<"u1", "u2">>}

OracleCategory == [category : OracleNames, refUrls : OracleUrlLists]

OracleResponses ==
  {[categories |-> cs] : cs \in SeqUpTo(OracleCategory, MaxOracleCats)}

\* what the identifier oracle may return
OracleIdentifiers == {[identifier |-> "id"]}

\* one page of the category view (the formatted text of a category)
RenderCategory(c, data) ==
  [title |-> c.category,
   sites |-> [j \in 1..Len(c.refUrls) |->
                [title |-> findByUrl(data, c.refUrls[j]).title,
                 url |-> findByUrl(data, c.refUrls[j]).url]]]

RenderCategories(cats, data) ==
  [i \in 1..Len(cats) |-> RenderCategory(cats[i], data)]

\* the drop-if-empty policy left out
KeepEmpty(cats) == cats

\* categories.categories.filter((c) => c.refUrls.length > 0)
DropEmpty(cats) == SelectSeq(cats, LAMBDA c : Len(c.refUrls) > 0)

\* the sub-sequences of seq (the values a checkbox prompt can return)
RECURSIVE SubSeqs(_)
SubSeqs(seq) ==
  IF seq = <<>> THEN {<<>>}
  ELSE LET rest == SubSeqs(Tail(seq))
       IN rest \cup {<<Head(seq)>> \o r : r \in rest}

MinOf(a, b) == IF a <= b THEN a ELSE b

MaxOf(a, b) == IF a >= b THEN a ELSE b

Init ==
  /\ call = [fn |-> "none"]
  /\ ret = NoRet
  /\ fsWrites = <<>>
  /\ cleanupCalls = <<>>
  /\ pc = "main"
  /\ crawlResult = Null
  /\ categories = Null
  /\ identifier = Null
  /\ disk = EmptyDisk
  /\ currentIndex = 0
  /\ categoryContent = <<>>
  /\ action = "none"
  /\ message = ""

viewVars == <<currentIndex, categoryContent, action, message>>

\* showMainMenu, case "new"
MainNew ==
  /\ pc = "main"
  /\ pc' = "startNewCrawl"
  /\ UNCHANGED <<opVars, crawlResult, categories, identifier, disk, viewVars>>

\* showMainMenu, case "continue" (offered when a current crawl id exists)
MainContinue ==
  /\ pc = "main"
  /\ getCurrentCrawlIdIfAny # NULL
  /\ pc' = "continue"
  /\ UNCHANGED <<opVars, crawlResult, categories, identifier, disk, viewVars>>

\* startNewCrawl: a current crawl exists and the user continues from it
StartNewCrawlContinue ==
  /\ pc = "startNewCrawl"
  /\ getCurrentCrawlIdIfAny # NULL
  /\ pc' = "continue"
  /\ UNCHANGED <<opVars, crawlResult, categories, identifier, disk, viewVars>>

\* startNewCrawl: a current crawl exists and the user cancels
StartNewCrawlCancel ==
  /\ pc = "startNewCrawl"
  /\ getCurrentCrawlIdIfAny # NULL
  /\ pc' = "main"
  /\ UNCHANGED <<opVars, crawlResult, categories, identifier, disk, viewVars>>

\* the current-crawl directory when the crawl starts: emptied by "archive"
\* or "delete" if a current crawl exists, as it is otherwise
DiskAtCrawl == IF getCurrentCrawlIdIfAny # NULL THEN EmptyDisk ELSE disk

\* startNewCrawl: crawlWebsite throws
StartNewCrawlCrawlFails ==
  /\ pc = "startNewCrawl"
  /\ disk' = DiskAtCrawl
  /\ pc' = "main"
  /\ UNCHANGED <<opVars, crawlResult, categories, identifier, viewVars>>

\* startNewCrawl: categorizeSites throws (no documents, or the oracle fails)
StartNewCrawlCategorizeFails ==
  /\ pc = "startNewCrawl"
  /\ \E R \in CrawlProviderResults :
       /\ crawlResult' = R
       /\ disk' = [DiskAtCrawl EXCEPT !.crawlResult = JSONstringify(R)]
  /\ pc' = "main"
  /\ UNCHANGED <<opVars, categories, identifier, viewVars>>

\* startNewCrawl: generateIdentifier throws
StartNewCrawlIdentifierFails ==
  /\ pc = "startNewCrawl"
  /\ \E R \in CrawlProviderResults, C \in OracleResponses :
       /\ Len(R.data) > 0
       /\ crawlResult' = R
       /\ categories' = C
       /\ disk' = [DiskAtCrawl EXCEPT !.crawlResult = JSONstringify(R),
                                      !.categories = JSONstringify(C),
                                      !.originalCategories = JSONstringify(C)]
  /\ pc' = "main"
  /\ UNCHANGED <<opVars, identifier, viewVars>>

\* startNewCrawl: everything succeeds; showProcessingMenu prints the summary
StartNewCrawlOk ==
  /\ pc = "startNewCrawl"
  /\ \E R \in CrawlProviderResults, C \in OracleResponses,
        I \in OracleIdentifiers :
       /\ Len(R.data) > 0
       /\ crawlResult' = R
       /\ identifier' = I
       /\ disk' = [DiskAtCrawl EXCEPT !.crawlResult = JSONstringify(R),
                                      !.categories = JSONstringify(C),
                                      !.originalCategories = JSONstringify(C),
                                      !.identifier = JSONstringify(I)]
       /\ categories' = [categories |-> sanitizeCategories(C.categories, R.data)]
  /\ pc' = "processing"
  /\ UNCHANGED <<opVars, viewVars>>

\* continueFromCurrentCrawl: what it loads
LoadedCategories ==
  IF disk.originalCategories # Null
  THEN JSONparse(disk.originalCategories)
  ELSE load(disk.categories)

\* continueFromCurrentCrawl: the session is loaded; if something is missing
\* startNewCrawl takes over, otherwise the categories are sanitized and
\* showProcessingMenu prints the summary
continueFromCurrentCrawl ==
  /\ pc = "continue"
  /\ crawlResult' = load(disk.crawlResult)
  /\ identifier' = load(disk.identifier)
  /\ IF \/ load(disk.crawlResult) = Null
        \/ LoadedCategories = Null
        \/ load(disk.identifier) = Null
     THEN /\ categories' = LoadedCategories
          /\ pc' = "startNewCrawl"
     ELSE /\ categories' = [categories |->
                              sanitizeCategories(LoadedCategories.categories,
                                                 load(disk.crawlResult).data)]
          /\ pc' = "processing"
  /\ UNCHANGED <<opVars, disk, viewVars>>

\* showProcessingMenu, case "back"
ProcessingBack ==
  /\ pc = "processing"
  /\ pc' = "main"
  /\ currentIndex' = 0
  /\ categoryContent' = <<>>
  /\ action' = "none"
  /\ message' = ""
  /\ UNCHANGED <<opVars, crawlResult, categories, identifier, disk>>

\* the page line that the view prints for an empty category set
PageOneOfNone == "Page 1 of 0"

\* showProcessingMenu, case "view": viewExpandedCategories shows page 1.
\* With no category it prints the page line of an empty list, then
\* currentCategory is undefined and reading its name throws; the enclosing
\* try/catch of startNewCrawl or continueFromCurrentCrawl shows the main menu.
OpenView ==
  /\ pc = "processing"
  /\ categoryContent' = RenderCategories(categories.categories, crawlResult.data)
  /\ currentIndex' = 0
  /\ action' = "none"
  /\ message' = IF Len(categories.categories) = 0 THEN PageOneOfNone ELSE ""
  /\ pc' = IF Len(categories.categories) = 0 THEN "main" ELSE "view"
  /\ UNCHANGED <<opVars, crawlResult, categories, identifier, disk>>

currentCategory == categories.categories[currentIndex + 1]

\* case "next"
ViewNext ==
  /\ pc = "view"
  /\ currentIndex < Len(categoryContent) - 1
  /\ action' = "next"
  /\ message' = ""
  /\ currentIndex' = MinOf(currentIndex + 1, Len(categoryContent) - 1)
  /\ UNCHANGED <<opVars, pc, crawlResult, categories, identifier, disk,
                 categoryContent>>

\* case "prev"
ViewPrev ==
  /\ pc = "view"
  /\ currentIndex > 0
  /\ action' = "prev"
  /\ message' = ""
  /\ currentIndex' = MaxOf(currentIndex - 1, 0)
  /\ UNCHANGED <<opVars, pc, crawlResult, categories, identifier, disk,
                 categoryContent>>

\* case "back"
ViewBack ==
  /\ pc = "view"
  /\ action' = "back"
  /\ message' = ""
  /\ pc' = "processing"
  /\ UNCHANGED <<opVars, crawlResult, categories, identifier, disk,
                 currentIndex, categoryContent>>

\* case "prune", selectedSites includes "cancel"
ViewPruneCancel ==
  /\ pc = "view"
  /\ action' = "prune"
  /\ message' = "Pruning cancelled."
  /\ UNCHANGED <<opVars, pc, crawlResult, categories, identifier, disk,
                 currentIndex, categoryContent>>

\* the view after categories changed: content rebuilt, index clamped or the
\* loop left, categories.json and finalized-categories.json written
ViewRefresh(cats) ==
  /\ categories' = [categories |-> cats]
  /\ categoryContent' = RenderCategories(cats, crawlResult.data)
  /\ IF Len(cats) = 0
     THEN /\ pc' = "processing"
          /\ currentIndex' = currentIndex
     ELSE /\ pc' = "view"
          /\ currentIndex' = MinOf(currentIndex, Len(cats) - 1)
  /\ disk' = [disk EXCEPT
                !.categories = JSONstringify([categories |-> cats]),
                !.finalizedCategories = JSONstringify([categories |-> cats])]

\* case "prune": selectedSites is any selection of the category's sites
ViewPrune ==
  /\ pc = "view"
  /\ action' = "prune"
  /\ message' = "Sites pruned successfully!"
  /\ \E selectedSites \in SubSeqs(currentCategory.refUrls) :
       ViewRefresh(DropEmpty(pruneUrlsFromCategory(categories.categories,
                                                   currentCategory.category,
                                                   selectedSites)))
  /\ UNCHANGED <<opVars, crawlResult, identifier>>

\* a failing split that has removed the split category before asking
ViewSplitFailsAfterRemoval ==
  /\ pc = "view"
  /\ action' = "split"
  /\ message' = "Failed to split category:"
  /\ ViewRefresh(RemoveOriginal(categories.categories, currentIndex + 1))
  /\ UNCHANGED <<opVars, crawlResult, identifier>>

\* case "split", categorizeSites throws: the category has no site, or the
\* oracle fails; the catch block reports it and the loop goes on
ViewSplitFails ==
  /\ pc = "view"
  /\ action' = "split"
  /\ message' = "Failed to split category:"
  /\ UNCHANGED <<opVars, pc, crawlResult, categories, identifier, disk,
                 currentIndex, categoryContent>>

\* case "split", the oracle answers newCategories
ViewSplit ==
  /\ pc = "view"
  /\ Len(currentCategory.refUrls) > 0
  /\ action' = "split"
  /\ message' = "Category Split Results:"
  /\ \E newCategories \in OracleResponses :
       /\ Len(categories.categories) - 1 + Len(newCategories.categories)
            <= MaxSessionCats
       /\ ViewRefresh(RemoveOriginal(MergeLoop(categories.categories,
                                               currentIndex + 1,
                                               newCategories.categories),
                                     currentIndex + 1))
  /\ UNCHANGED <<opVars, crawlResult, identifier>>

Next ==
  \/ MainNew
  \/ MainContinue
  \/ StartNewCrawlContinue
  \/ StartNewCrawlCancel
  \/ StartNewCrawlCrawlFails
  \/ StartNewCrawlCategorizeFails
  \/ StartNewCrawlIdentifierFails
  \/ StartNewCrawlOk
  \/ continueFromCurrentCrawl
  \/ ProcessingBack
  \/ OpenView
  \/ ViewNext
  \/ ViewPrev
  \/ ViewBack
  \/ ViewPruneCancel
  \/ ViewPrune
  \/ ViewSplitFails
  \/ ViewSplit

Spec == Init /\ [][Next]_vars

---------------------------------------------------------------------------
(* Claims about the session *)

Resolves(u, data) == \E k \in 1..Len(data) : data[k].url = u

\* C9: whenever the summary of the processing menu runs (and an export can
\* be started), every refUrls entry of the session's category set resolves
\* to a document of the session's crawl result, after any sequence of prune
\* and split operations.
C9_ResolvableAtSummary ==
  pc = "processing" =>
    \A i \in 1..Len(categories.categories) :
      \A j \in 1..Len(categories.categories[i].refUrls) :
        Resolves(categories.categories[i].refUrls[j], crawlResult.data)

\* C10: after every completed prune step (pruneUrlsFromCategory followed by
\* the drop-if-empty filter) no category with an empty refUrls remains in the
\* session's category set.
C10_NoEmptyCategoryAfterPrune ==
  (action = "prune" /\ message = "Sites pruned successfully!") =>
    \A i \in 1..Len(categories.categories) :
      Len(categories.categories[i].refUrls) > 0

\* a prune that emptied the last category: the set is empty, the view loop
\* has ended and the emptied set has been saved
C10_Witness ==
  /\ action = "prune"
  /\ message = "Sites pruned successfully!"
  /\ pc = "processing"
  /\ categories.categories = <<>>
  /\ Len(categoryContent) = 0
  /\ disk.finalizedCategories = JSONstringify([categories |-> <<>>])

---------------------------------------------------------------------------
(* src/src/lib/processing.ts: the document assembler                       *)
(* File content is the sequence of the pieces appended to the string:      *)
(* headings ("# ", "## ", "### " and a text), links ("[url](url)") and     *)
(* bodies. Paths are relative to outputDir. Texts and paths are sequences  *)
(* of characters; a string that is never split is kept as one element.     *)

Chars(str) == <<str>>

IsWhitespace(c) == c \in {" ", "\t"}

\* String.prototype.replace(/\s+/g, "_")
RECURSIVE ReplaceWhitespace(_)
ReplaceWhitespace(name) ==
  IF name = <<>> THEN <<>>
  ELSE IF IsWhitespace(Head(name))
       THEN IF Len(name) > 1 /\ IsWhitespace(name[2])
            THEN ReplaceWhitespace(Tail(name))
            ELSE <<"_">> \o ReplaceWhitespace(Tail(name))
       ELSE <<Head(name)>> \o ReplaceWhitespace(Tail(name))

Heading(level, text) == [kind |-> "heading", level |-> level, text |-> text]

Link(url) == [kind |-> "link", url |-> url]

Body(text) == [kind |-> "body", text |-> text]

\* path.join(outputDir, `${identifier.identifier}.md`)
OutputPath(id) == Chars(id.identifier) \o <<".md">>

\* path.join(outputDir, `${identifier}_${category.replace(/\s+/g, "_")}.md`)
CategoryFile(id, category) ==
  Chars(id.identifier) \o <<"_">> \o ReplaceWhitespace(category.category)
    \o <<".md">>

\* processDocument returning null without the check of the markdown body
ReturnsNullIgnoringBody(url, data) ==
  \/ Falsy(findByUrl(data, url).title)
  \/ Falsy(findByUrl(data, url).url)

\* processDocument: the early "return null"
ReturnsNull(url, data) ==
  \/ Falsy(findByUrl(data, url).title)
  \/ Falsy(findByUrl(data, url).url)
  \/ Falsy(findByUrl(data, url).markdown)

\* the single-file loop emitting a heading also for an empty category
SkipsCategoryNever(category) == FALSE

\* if (category.refUrls.length === 0) continue;
SkipsCategory(category) == Len(category.refUrls) = 0

\* the blocks appended for the processed documents of a category
RECURSIVE DocumentBlocks(_, _)
DocumentBlocks(documents, level) ==
  IF documents = <<>> THEN <<>>
  ELSE <<Heading(level, Chars(Head(documents).title)),
         Link(Head(documents).url),
         Body(Head(documents).content)>>
       \o DocumentBlocks(Tail(documents), level)

\* what the cleanup oracle may answer
CleanedTexts == {"cleaned"}

\* inputs of writeDocumentsToFile
WriteNames == {<<"A", " ", " ", "B">>, <<"A", "_", "B">>, <<"C">>}

WriteCategory ==
  [category : WriteNames, refUrls : SeqUpTo({"u1", "u2"}, MaxWriteRefs)]

\* the document of u1 is complete; the document of u2 is complete, or lacks
\* a title, a body or its url, or is not in the crawl result at all
WriteCrawlResults ==
  {<<[url |-> "u1", title |-> "T1", markdown |-> "m1"]>> \o second :
     second \in {<<>>,
                 <<[url |-> "u2", title |-> "T2", markdown |-> "m2"]>>,
                 <<[url |-> "u2", title |-> "", markdown |-> "m2"]>>,
                 <<[url |-> "u2", title |-> NULL, markdown |-> "m2"]>>,
                 <<[url |-> "u2", title |-> "T2", markdown |-> ""]>>,
                 <<[url |-> "u2", title |-> "T2", markdown |-> NULL]>>,
                 <<[url |-> NULL, title |-> "T2", markdown |-> "m2"]>>}}

InitWrite ==
  /\ CliIdle
  /\ fsWrites = <<>>
  /\ cleanupCalls = <<>>
  /\ ret = NoRet
  /\ \E C \in SeqUpTo(WriteCategory, MaxWriteCats), R \in WriteCrawlResults,
        mode \in {"single", "multiple"} :
       call = [fn |-> "writeDocumentsToFile", categories |-> C,
               identifier |-> [identifier |-> "id"], crawlResult |-> R,
               mode |-> mode]

Writing(at) ==
  /\ call.fn = "writeDocumentsToFile"
  /\ ret.status = "running"
  /\ ret.at = at

\* the call starts: outputFiles = [], and in single mode the top heading
WriteBegin ==
  /\ call.fn = "writeDocumentsToFile"
  /\ ret = NoRet
  /\ ret' = [status |-> "running", at |-> "category", ci |-> 1, ui |-> 1,
             content |-> IF call.mode = "single"
                         THEN <<Heading(1, Chars(call.identifier.identifier))>>
                         ELSE <<>>,
             documents |-> <<>>, outputFiles |-> <<>>]
  /\ UNCHANGED <<call, cliVars, ioVars>>

\* for (const category of categories.categories): an empty one is skipped
WriteSkipCategory ==
  /\ Writing("category")
  /\ ret.ci <= Len(call.categories)
  /\ SkipsCategory(call.categories[ret.ci])
  /\ ret' = [ret EXCEPT !.ci = ret.ci + 1]
  /\ UNCHANGED <<call, cliVars, ioVars>>

\* a category with sites: its heading, then processCategoryContent starts
WriteEnterCategory ==
  /\ Writing("category")
  /\ ret.ci <= Len(call.categories)
  /\ ~SkipsCategory(call.categories[ret.ci])
  /\ ret' = [ret EXCEPT
               !.at = "document",
               !.ui = 1,
               !.documents = <<>>,
               !.content =
                 IF call.mode = "single"
                 THEN ret.content
                        \o <<Heading(2, call.categories[ret.ci].category)>>
                 ELSE <<Heading(1, call.categories[ret.ci].category)>>]
  /\ UNCHANGED <<call, cliVars, ioVars>>

\* processDocument returns null: nothing is pushed
WriteSkipDocument ==
  /\ Writing("document")
  /\ ret.ui <= Len(call.categories[ret.ci].refUrls)
  /\ ReturnsNull(call.categories[ret.ci].refUrls[ret.ui], call.crawlResult)
  /\ ret' = [ret EXCEPT !.ui = ret.ui + 1]
  /\ UNCHANGED <<call, cliVars, ioVars>>

\* processDocument awaits cleanupMarkdownDocument, which answers
WriteCleanupOk ==
  /\ Writing("document")
  /\ ret.ui <= Len(call.categories[ret.ci].refUrls)
  /\ ~ReturnsNull(call.categories[ret.ci].refUrls[ret.ui], call.crawlResult)
  /\ LET siteData == findByUrl(call.crawlResult,
                               call.categories[ret.ci].refUrls[ret.ui])
     IN /\ cleanupCalls' = Append(cleanupCalls, siteData.markdown)
        /\ \E cleanedContent \in CleanedTexts :
             ret' = [ret EXCEPT
                       !.ui = ret.ui + 1,
                       !.documents =
                         Append(ret.documents,
                                [title |-> siteData.title,
                                 url |-> siteData.url,
                                 content |-> cleanedContent])]
  /\ UNCHANGED <<call, cliVars, fsWrites>>

\* a cleanup failure swallowed: the document is kept with an empty body
WriteCleanupFailsEmptyBody ==
  /\ Writing("document")
  /\ ret.ui <= Len(call.categories[ret.ci].refUrls)
  /\ ~ReturnsNull(call.categories[ret.ci].refUrls[ret.ui], call.crawlResult)
  /\ LET siteData == findByUrl(call.crawlResult,
                               call.categories[ret.ci].refUrls[ret.ui])
     IN /\ cleanupCalls' = Append(cleanupCalls, siteData.markdown)
        /\ ret' = [ret EXCEPT
                     !.ui = ret.ui + 1,
                     !.documents =
                       Append(ret.documents,
                              [title |-> siteData.title, url |-> siteData.url,
                               content |-> ""])]
  /\ UNCHANGED <<call, cliVars, fsWrites>>

\* cleanupMarkdownDocument throws: the call rejects
WriteCleanupFails ==
  /\ Writing("document")
  /\ ret.ui <= Len(call.categories[ret.ci].refUrls)
  /\ ~ReturnsNull(call.categories[ret.ci].refUrls[ret.ui], call.crawlResult)
  /\ cleanupCalls' =
       Append(cleanupCalls,
              findByUrl(call.crawlResult,
                        call.categories[ret.ci].refUrls[ret.ui]).markdown)
  /\ ret' = [status |-> "thrown"]
  /\ UNCHANGED <<call, cliVars, fsWrites>>

\* the documents of the category are appended; in multiple mode the
\* category's file is written and its path pushed
WriteCategoryDone ==
  /\ Writing("document")
  /\ ret.ui > Len(call.categories[ret.ci].refUrls)
  /\ LET content == ret.content
                      \o DocumentBlocks(ret.documents,
                                        IF call.mode = "single" THEN 3 ELSE 2)
         categoryFile == CategoryFile(call.identifier, call.categories[ret.ci])
     IN IF call.mode = "single"
        THEN /\ ret' = [ret EXCEPT !.at = "category", !.ci = ret.ci + 1,
                                   !.content = content]
             /\ UNCHANGED fsWrites
        ELSE /\ fsWrites' = Append(fsWrites, [path |-> categoryFile,
                                              content |-> content])
             /\ ret' = [ret EXCEPT !.at = "category", !.ci = ret.ci + 1,
                                   !.content = content,
                                   !.outputFiles =
                                     Append(ret.outputFiles, categoryFile)]
  /\ UNCHANGED <<call, cliVars, cleanupCalls>>

\* the loop is over: single mode writes its file; outputFiles is returned
WriteReturn ==
  /\ Writing("category")
  /\ ret.ci > Len(call.categories)
  /\ IF call.mode = "single"
     THEN /\ fsWrites' = Append(fsWrites, [path |-> OutputPath(call.identifier),
                                           content |-> ret.content])
          /\ ret' = [status |-> "returned",
                     value |-> Append(ret.outputFiles,
                                      OutputPath(call.identifier))]
     ELSE /\ ret' = [status |-> "returned", value |-> ret.outputFiles]
          /\ UNCHANGED fsWrites
  /\ UNCHANGED <<call, cliVars, cleanupCalls>>

NextWrite ==
  \/ WriteBegin
  \/ WriteSkipCategory
  \/ WriteEnterCategory
  \/ WriteSkipDocument
  \/ WriteCleanupOk
  \/ WriteCleanupFails
  \/ WriteCategoryDone
  \/ WriteReturn

SpecWrite == InitWrite /\ [][NextWrite]_vars

\* longer category sets over fewer documents: u1 is complete, u2 is not crawled
WriteManyCategory ==
  [category : WriteNames, refUrls : {<<>>, <<"u1">>, <<"u2">>}]

InitWriteMany ==
  /\ CliIdle
  /\ fsWrites = <<>>
  /\ cleanupCalls = <<>>
  /\ ret = NoRet
  /\ \E C \in SeqUpTo(WriteManyCategory, MaxManyCats),
        mode \in {"single", "multiple"} :
       call = [fn |-> "writeDocumentsToFile", categories |-> C,
               identifier |-> [identifier |-> "id"],
               crawlResult |->
                 <<[url |-> "u1", title |-> "T1", markdown |-> "m1"]>>,
               mode |-> mode]

SpecWriteMany == InitWriteMany /\ [][NextWrite]_vars

---------------------------------------------------------------------------
(* Claims about the document assembler, checked under SpecWrite            *)

HasText(v) == v # NULL /\ v # ""

\* a crawled document with this url exists and has a title, a url and a body
Resolvable(url, data) ==
  \E i \in 1..Len(data) :
    /\ data[i].url = url
    /\ HasText(data[i].title)
    /\ HasText(data[i].url)
    /\ HasText(data[i].markdown)

DocumentOf(url, data) ==
  data[CHOOSE i \in 1..Len(data) : data[i].url = url]

ResolvableUrls(category, data) ==
  SelectSeq(category.refUrls, LAMBDA u : Resolvable(u, data))

NonEmpty(cats) == SelectSeq(cats, LAMBDA c : c.refUrls # <<>>)

\* the content with every body replaced by a placeholder
Shape(content) ==
  [i \in 1..Len(content) |->
     IF content[i].kind = "body" THEN [kind |-> "body"] ELSE content[i]]

RECURSIVE ExpectedBlocks(_, _, _)
ExpectedBlocks(urls, data, level) ==
  IF urls = <<>> THEN <<>>
  ELSE <<[kind |-> "heading", level |-> level,
          text |-> <<DocumentOf(Head(urls), data).title>>],
         [kind |-> "link", url |-> Head(urls)],
         [kind |-> "body"]>>
       \o ExpectedBlocks(Tail(urls), data, level)

RECURSIVE ExpectedSections(_, _)
ExpectedSections(cats, data) ==
  IF cats = <<>> THEN <<>>
  ELSE (IF Head(cats).refUrls = <<>> THEN <<>>
        ELSE <<[kind |-> "heading", level |-> 2, text |-> Head(cats).category]>>
             \o ExpectedBlocks(ResolvableUrls(Head(cats), data), data, 3))
       \o ExpectedSections(Tail(cats), data)

ExpectedSingle(cats, data, id) ==
  <<[kind |-> "heading", level |-> 1, text |-> <<id>>]>>
    \o ExpectedSections(cats, data)

FilesOnDisk == {fsWrites[i].path : i \in 1..Len(fsWrites)}

\* C7: in multiple mode a call that completes has produced as many files as
\* there are categories with non-empty refUrls, each category's file being
\* {identifier}_{name with whitespace runs as one underscore}.md and holding
\* that category's heading; none when every category is empty.
C7_MultipleModeOneFilePerCategory ==
  (call.fn = "writeDocumentsToFile" /\ call.mode = "multiple"
     /\ ret.status = "returned") =>
    /\ Cardinality(FilesOnDisk) = Len(NonEmpty(call.categories))
    /\ Len(ret.value) = Len(NonEmpty(call.categories))
    /\ NonEmpty(call.categories) = <<>> => fsWrites = <<>> /\ ret.value = <<>>

RECURSIVE Flatten(_)
Flatten(seqs) ==
  IF seqs = <<>> THEN <<>> ELSE Head(seqs) \o Flatten(Tail(seqs))

IsPrefix(p, q) == Len(p) <= Len(q) /\ p = SubSeq(q, 1, Len(p))

\* the bodies of the resolvable entries, category by category
ExpectedCleanupCalls ==
  Flatten([k \in 1..Len(call.categories) |->
             [j \in 1..Len(ResolvableUrls(call.categories[k], call.crawlResult))
                |-> DocumentOf(ResolvableUrls(call.categories[k],
                                              call.crawlResult)[j],
                               call.crawlResult).markdown]])

ExpectedLinks ==
  Flatten([k \in 1..Len(call.categories) |->
             ResolvableUrls(call.categories[k], call.crawlResult)])

LinksOf(content) ==
  [i \in 1..Len(SelectSeq(content, LAMBDA b : b.kind = "link")) |->
     SelectSeq(content, LAMBDA b : b.kind = "link")[i].url]

WrittenLinks ==
  Flatten([k \in 1..Len(fsWrites) |-> LinksOf(fsWrites[k].content)])

\* C8: the cleanup oracle is invoked only for entries whose document exists
\* and has a title, a url and a body, in category and refUrls order; the call
\* fails only after such an invocation; a call that completes has invoked it
\* for every such entry and has emitted exactly those documents, in order.
C8_UnresolvableSkipped ==
  call.fn = "writeDocumentsToFile" =>
    /\ IsPrefix(cleanupCalls, ExpectedCleanupCalls)
    /\ ret.status = "thrown" => cleanupCalls # <<>>
    /\ ret.status = "returned" =>
         /\ cleanupCalls = ExpectedCleanupCalls
         /\ WrittenLinks = ExpectedLinks

\* a completed call in which the entry before a resolvable one has a document
\* without a body
C8_Witness ==
  /\ call.fn = "writeDocumentsToFile"
  /\ ret.status = "returned"
  /\ \E k \in 1..Len(call.categories) :
       call.categories[k].refUrls = <<"u2", "u1">>
  /\ \E i \in 1..Len(call.crawlResult) :
       call.crawlResult[i].url = "u2" /\ call.crawlResult[i].markdown = ""
  /\ cleanupCalls # <<>>
  /\ WrittenLinks = ExpectedLinks

BodiesOf(content) ==
  [i \in 1..Len(SelectSeq(content, LAMBDA b : b.kind = "body")) |->
     SelectSeq(content, LAMBDA b : b.kind = "body")[i].text]

WrittenBodies ==
  Flatten([k \in 1..Len(fsWrites) |-> BodiesOf(fsWrites[k].content)])

\* the cleanup calls that have answered so far
AnsweredCleanupCalls ==
  IF ret.status = "thrown" THEN Len(cleanupCalls) - 1 ELSE Len(cleanupCalls)

\* C11: a call in which the cleanup oracle failed has returned no path list,
\* and every document body in every file written is an answer of the cleanup
\* oracle, one per answered call at most: no file holds a document whose
\* cleanup failed, with an empty body or any other.
C11_CleanupFailureFailsCall ==
  call.fn = "writeDocumentsToFile" =>
    /\ ret.status = "thrown" => DOMAIN ret = {"status"}
    /\ \A i \in 1..Len(WrittenBodies) : WrittenBodies[i] \in CleanedTexts
    /\ Len(WrittenBodies) <= AnsweredCleanupCalls
    /\ (ret.status = "thrown" /\ call.mode = "single") => fsWrites = <<>>

\* the oracle failed on the second category of a multiple-mode call, after
\* the file of the first was written
C11_Witness ==
  /\ call.fn = "writeDocumentsToFile"
  /\ call.mode = "multiple"
  /\ ret.status = "thrown"
  /\ Len(cleanupCalls) = 2
  /\ Len(fsWrites) = 1
  /\ Len(WrittenBodies) = 1

\* the categories before position k that have sites
EarlierNonEmpty(k) == NonEmpty(SubSeq(call.categories, 1, k - 1))

\* C12: when the cleanup oracle fails in multiple mode while the k-th
\* category is processed, one file has been written for each earlier
\* non-empty category and none for the k-th or a later one, and those files
\* are all on disk; when it fails in single mode no file has been written.
C12_FailureKeepsEarlierFiles ==
  [][(call.fn = "writeDocumentsToFile" /\ ret.status = "running"
        /\ ret'.status = "thrown") =>
       IF call.mode = "single"
       THEN fsWrites' = <<>>
       ELSE /\ Len(fsWrites') = Len(EarlierNonEmpty(ret.ci))
            /\ Cardinality(FilesOnDisk') = Len(EarlierNonEmpty(ret.ci))]_vars

---------------------------------------------------------------------------
(* Further claims about the interactive session, checked under Spec        *)

StoredArtifacts == {disk.crawlResult, disk.categories, disk.identifier}

\* C13: whenever the main menu is shown (no crawl attempt in progress) the
\* stored session is complete or absent: the crawl result, the category set
\* and the identifier are all persisted or none is; a failed attempt leaves
\* none of them behind.
C13_StoredSessionCompleteOrAbsent ==
  pc = "main" =>
    \/ StoredArtifacts = {Null}
    \/ Null \notin StoredArtifacts

---------------------------------------------------------------------------
(* src/src/lib/processing.ts: token estimation                             *)
(* A content is its sequence of characters. A JavaScript number is kept    *)
(* as an exact fraction in lowest terms; the rounding of IEEE doubles is   *)
(* not part of the model.                                                 *)

RECURSIVE GCD(_, _)
GCD(a, b) == IF b = 0 THEN a ELSE GCD(b, a % b)

Number(num, den) ==
  [num |-> num \div GCD(num, den), den |-> den \div GCD(num, den)]

Plus(x, y) == Number(x.num * y.den + y.num * x.den, x.den * y.den)

\* Math.ceil(n / d) for n >= 0, d > 0
MathCeil(n, d) == IF n % d = 0 THEN n \div d ELSE (n \div d) + 1

\* Math.floor in place of Math.ceil
estimateTokensFloor(content) == Number((Len(content) \div 4) * 4, 5)

\* (Math.ceil(content.length / 4) * 4) / 5
estimateTokens(content) == Number(MathCeil(Len(content), 4) * 4, 5)

\* siteData?.markdown ?? ""
markdownOrEmpty(data, url) ==
  IF ~\E k \in 1..Len(data) : data[k].url = url THEN <<>>
  ELSE IF "markdown" \in DOMAIN findByUrl(data, url)
       THEN findByUrl(data, url).markdown
       ELSE <<>>

\* the reduce adding the estimate of the first entry only
RECURSIVE ReduceFirstOnly(_, _, _)
ReduceFirstOnly(acc, refUrls, data) ==
  IF refUrls = <<>> THEN acc
  ELSE Plus(acc, estimateTokens(markdownOrEmpty(data, Head(refUrls))))

\* category.refUrls.reduce((acc, url) => acc + estimateTokens(...), acc)
RECURSIVE ReduceRefUrls(_, _, _)
ReduceRefUrls(acc, refUrls, data) ==
  IF refUrls = <<>> THEN acc
  ELSE ReduceRefUrls(
         Plus(acc, estimateTokens(markdownOrEmpty(data, Head(refUrls)))),
         Tail(refUrls), data)

estimateTokensForCategory(category, data) ==
  ReduceRefUrls(Number(0, 1), category.refUrls, data)

\* categories.categories.reduce((acc, category) => acc + ..., acc)
RECURSIVE ReduceCategories(_, _, _)
ReduceCategories(acc, cats, data) ==
  IF cats = <<>> THEN acc
  ELSE ReduceCategories(
         Plus(acc, estimateTokensForCategory(Head(cats), data)),
         Tail(cats), data)

estimateTokensForAllDocuments(cats, data) ==
  ReduceCategories(Number(0, 1), cats, data)

\* inputs
TokenContents == SeqUpTo({"a", " "}, MaxContentLen)

TokenMarkdowns == {<<>>, <<"a">>, <<"a", "a", " ", "a">>,
                   <<"a", " ", "a", "a", "a">>}

\* u1 is crawled, with or without a markdown body; u2 may be; g is not
TokenCrawlResults ==
  {first \o second :
     first \in {<<[url |-> "u1", title |-> "T1"]>>}
               \cup {<<[url |-> "u1", title |-> "T1", markdown |-> b]>> :
                       b \in TokenMarkdowns},
     second \in {<<>>}
                \cup {<<[url |-> "u2", title |-> "T2", markdown |-> b]>> :
                        b \in TokenMarkdowns}}

TokenCategory ==
  [category : {<<"A">>}, refUrls : SeqUpTo({"u1", "u2", "g"}, MaxTokenRefs)]

InitTokens ==
  /\ CliIdle
  /\ fsWrites = <<>>
  /\ cleanupCalls = <<>>
  /\ ret = NoRet
  /\ \/ \E content \in TokenContents :
          call = [fn |-> "estimateTokens", content |-> content]
     \/ \E category \in TokenCategory, R \in TokenCrawlResults :
          call = [fn |-> "estimateTokensForCategory", category |-> category,
                  crawlResult |-> R]
     \/ \E C \in SeqUpTo(TokenCategory, MaxTokenCats),
           R \in TokenCrawlResults :
          call = [fn |-> "estimateTokensForAllDocuments", categories |-> C,
                  crawlResult |-> R]

CallEstimateTokens ==
  /\ call.fn = "estimateTokens"
  /\ ret = NoRet
  /\ ret' = [status |-> "returned", value |-> estimateTokens(call.content)]
  /\ UNCHANGED <<call, cliVars, ioVars>>

CallEstimateTokensForCategory ==
  /\ call.fn = "estimateTokensForCategory"
  /\ ret = NoRet
  /\ ret' = [status |-> "returned",
             value |-> estimateTokensForCategory(call.category,
                                                 call.crawlResult)]
  /\ UNCHANGED <<call, cliVars, ioVars>>

CallEstimateTokensForAllDocuments ==
  /\ call.fn = "estimateTokensForAllDocuments"
  /\ ret = NoRet
  /\ ret' = [status |-> "returned",
             value |-> estimateTokensForAllDocuments(call.categories,
                                                     call.crawlResult)]
  /\ UNCHANGED <<call, cliVars, ioVars>>

NextTokens ==
  \/ CallEstimateTokens
  \/ CallEstimateTokensForCategory
  \/ CallEstimateTokensForAllDocuments

SpecTokens == InitTokens /\ [][NextTokens]_vars

\* the least integer c with d * c >= n
CeilingOf(n, d) == CHOOSE c \in 0..n : d * c >= n /\ \A b \in 0..(c - 1) : d * b < n

\* C14: 5 * estimateTokens(content) = 4 * ceil(length(content) / 4); the
\* estimate is 0 for the empty content, is never negative and is the same
\* for every content of the same length.
C14_EstimateTokensFormula ==
  Returned("estimateTokens") =>
    /\ 5 * ret.value.num = 4 * CeilingOf(Len(call.content), 4) * ret.value.den
    /\ ret.value.den > 0
    /\ ret.value.num >= 0
    /\ call.content = <<>> => ret.value.num = 0
    /\ \A other \in TokenContents :
         Len(other) = Len(call.content) => estimateTokens(other) = ret.value

\* the estimate of a content of five characters (two groups of four): 8/5
C14_Witness ==
  /\ Returned("estimateTokens")
  /\ Len(call.content) = 5
  /\ ret.value = [num |-> 8, den |-> 5]

\* the length of the body of the document of url, 0 if there is none
BodyLength(data, url) ==
  IF \E i \in 1..Len(data) : data[i].url = url
  THEN LET d == data[CHOOSE i \in 1..Len(data) : data[i].url = url]
       IN IF "markdown" \in DOMAIN d THEN Len(d.markdown) ELSE 0
  ELSE 0

\* five times the sum of the estimates of the bodies of the entries
RECURSIVE SumFifths(_, _)
SumFifths(urls, data) ==
  IF urls = <<>> THEN 0
  ELSE 4 * CeilingOf(BodyLength(data, Head(urls)), 4)
       + SumFifths(Tail(urls), data)

RECURSIVE SumFifthsOfAll(_, _)
SumFifthsOfAll(cats, data) ==
  IF cats = <<>> THEN 0
  ELSE SumFifths(Head(cats).refUrls, data) + SumFifthsOfAll(Tail(cats), data)

\* C15: estimateTokensForCategory returns the sum of the estimates of the
\* bodies of the refUrls entries that resolve, an entry that does not resolve
\* adding 0; estimateTokensForAllDocuments returns the sum of that over the
\* categories, 0 for the empty category set; neither raises an error.
C15_EstimatesAreSums ==
  /\ Returned("estimateTokensForCategory") =>
       5 * ret.value.num =
         ret.value.den * SumFifths(call.category.refUrls, call.crawlResult)
  /\ Returned("estimateTokensForAllDocuments") =>
       /\ 5 * ret.value.num =
            ret.value.den * SumFifthsOfAll(call.categories, call.crawlResult)
       /\ call.categories = <<>> => ret.value.num = 0
  /\ call.fn \in {"estimateTokensForCategory",
                  "estimateTokensForAllDocuments"} =>
       ret.status \in {"pending", "returned"}

\* two categories, the first with an entry that does not resolve before one
\* that does (8/5 for five characters), the second with u2 twice (4/5 each)
C15_Witness ==
  /\ Returned("estimateTokensForAllDocuments")
  /\ Len(call.categories) = 2
  /\ call.categories[1].refUrls = <<"g", "u1">>
  /\ call.categories[2].refUrls = <<"u2", "u2">>
  /\ BodyLength(call.crawlResult, "u1") = 5
  /\ BodyLength(call.crawlResult, "u2") = 1
  /\ ret.value = [num |-> 16, den |-> 5]

---------------------------------------------------------------------------
(* Further claims about the pure functions, checked under SpecOps          *)

\* C16: sanitizing the result of sanitizeCategories(C, R) against R again
\* gives that result back, category by category and entry by entry.
C16_SanitizeIdempotent ==
  Returned("sanitizeCategories") =>
    sanitizeCategories(ret.value, call.crawlResult) = ret.value

\* a sanitize that dropped an entry, so that sanitizing once changed the set
C16_Witness ==
  /\ Returned("sanitizeCategories")
  /\ ret.value # call.categories
  /\ \E i \in 1..Len(ret.value) : ret.value[i].refUrls # <<>>

\* C17: the result of sanitizeCategories has as many categories as the
\* input, with the same names at the same positions, also where a category
\* has no entry left or had none.
C17_SanitizeKeepsCategories ==
  Returned("sanitizeCategories") =>
    /\ Len(ret.value) = Len(call.categories)
    /\ \A i \in 1..Len(call.categories) :
         /\ DOMAIN ret.value[i] = DOMAIN call.categories[i]
         /\ ret.value[i].category = call.categories[i].category

\* a first category that lost its only entry and is still there, before one
\* that kept its entries
C17_Witness ==
  /\ Returned("sanitizeCategories")
  /\ Len(call.categories) = 2
  /\ call.categories[1].refUrls # <<>>
  /\ ret.value[1].refUrls = <<>>
  /\ ret.value[2].refUrls # <<>>

---------------------------------------------------------------------------
(* src/src/lib/index.ts: categorizeSites and generateIdentifier            *)
(* ret follows the call: pending, awaiting (generateObject was called and  *)
(* has not settled), resolved (it fulfilled with result), then returned;   *)
(* or thrown.                                                              *)

CrawledDocument ==
  [url : {"u1", "u2"}, title : {"T", ""}, description : {""}, content : {"m"}]

\* sites.map((d) => `${d.url} - ${d.title} - ${d.description}`)
PromptLines(sites) ==
  [i \in 1..Len(sites) |->
     <<sites[i].url, " - ", sites[i].title, " - ", sites[i].description>>]

NoSitesError == "No sites provided for categorization"

NoDocumentsError == "No documents provided for identifier generation"

OracleError == "generateObject rejected"

InitOracle ==
  /\ CliIdle
  /\ fsWrites = <<>>
  /\ cleanupCalls = <<>>
  /\ ret = NoRet
  /\ \/ \E sites \in SeqUpTo(CrawledDocument, MaxSites) :
          call = [fn |-> "categorizeSites", sites |-> sites]
     \/ \E documents \in SeqUpTo(CrawledDocument, MaxSites) :
          call = [fn |-> "generateIdentifier", documents |-> documents]

\* if (!sites.length) throw
CategorizeSitesRejects ==
  /\ call.fn = "categorizeSites"
  /\ ret = NoRet
  /\ Len(call.sites) = 0
  /\ ret' = [status |-> "thrown", error |-> NoSitesError]
  /\ UNCHANGED <<call, cliVars, ioVars>>

\* categorizeSites calling generateObject whatever the number of sites
CategorizeSitesAsksUnguarded ==
  /\ call.fn = "categorizeSites"
  /\ ret = NoRet
  /\ ret' = [status |-> "awaiting", schema |-> "categorySchema",
             prompt |-> PromptLines(call.sites)]
  /\ UNCHANGED <<call, cliVars, ioVars>>

\* generateObject is called with the category schema and the sites
CategorizeSitesAsks ==
  /\ call.fn = "categorizeSites"
  /\ ret = NoRet
  /\ Len(call.sites) # 0
  /\ ret' = [status |-> "awaiting", schema |-> "categorySchema",
             prompt |-> PromptLines(call.sites)]
  /\ UNCHANGED <<call, cliVars, ioVars>>

\* the classification oracle answers
CategorizeOracleAnswers ==
  /\ call.fn = "categorizeSites"
  /\ ret.status = "awaiting"
  /\ \E object \in OracleResponses :
       ret' = [status |-> "resolved", result |-> [object |-> object]]
  /\ UNCHANGED <<call, cliVars, ioVars>>

\* if (!documents.length) throw
GenerateIdentifierRejects ==
  /\ call.fn = "generateIdentifier"
  /\ ret = NoRet
  /\ Len(call.documents) = 0
  /\ ret' = [status |-> "thrown", error |-> NoDocumentsError]
  /\ UNCHANGED <<call, cliVars, ioVars>>

\* generateObject is called with the identifier schema and the documents
GenerateIdentifierAsks ==
  /\ call.fn = "generateIdentifier"
  /\ ret = NoRet
  /\ Len(call.documents) # 0
  /\ ret' = [status |-> "awaiting", schema |-> "identifierSchema",
             prompt |-> PromptLines(call.documents)]
  /\ UNCHANGED <<call, cliVars, ioVars>>

\* the identifier oracle answers
IdentifierOracleAnswers ==
  /\ call.fn = "generateIdentifier"
  /\ ret.status = "awaiting"
  /\ \E object \in OracleIdentifiers :
       ret' = [status |-> "resolved", result |-> [object |-> object]]
  /\ UNCHANGED <<call, cliVars, ioVars>>

\* generateObject rejects: the await throws out of the function
OracleRejects ==
  /\ call.fn \in {"categorizeSites", "generateIdentifier"}
  /\ ret.status = "awaiting"
  /\ ret' = [status |-> "thrown", error |-> OracleError]
  /\ UNCHANGED <<call, cliVars, ioVars>>

\* return result.object
OracleResultReturned ==
  /\ call.fn \in {"categorizeSites", "generateIdentifier"}
  /\ ret.status = "resolved"
  /\ ret' = [status |-> "returned", value |-> ret.result.object]
  /\ UNCHANGED <<call, cliVars, ioVars>>

NextOracle ==
  \/ CategorizeSitesRejects
  \/ CategorizeSitesAsks
  \/ CategorizeOracleAnswers
  \/ GenerateIdentifierRejects
  \/ GenerateIdentifierAsks
  \/ IdentifierOracleAnswers
  \/ OracleRejects
  \/ OracleResultReturned

SpecOracle == InitOracle /\ [][NextOracle]_vars

GivenDocuments ==
  IF call.fn = "categorizeSites" THEN call.sites ELSE call.documents

\* C18: with zero documents the only step of categorizeSites and of
\* generateIdentifier is to fail with its invalid-input error, carrying no
\* value, the oracle never being asked; with at least one document the call
\* fails only when the oracle does and returns exactly the object the oracle
\* answered.
C18_ZeroDocumentsRejected ==
  [][(call.fn \in {"categorizeSites", "generateIdentifier"} /\ ret' # ret) =>
       IF Len(GivenDocuments) = 0
       THEN /\ ret = NoRet
            /\ ret' = [status |-> "thrown",
                       error |-> IF call.fn = "categorizeSites"
                                 THEN NoSitesError ELSE NoDocumentsError]
       ELSE /\ ret'.status = "thrown" =>
                 ret.status = "awaiting" /\ ret'.error = OracleError
            /\ ret'.status = "returned" =>
                 ret.status = "resolved" /\ ret'.value = ret.result.object]_vars

\* categorizeSites returned a category naming a URL that is not among the
\* sites it was given
C18_Witness ==
  /\ Returned("categorizeSites")
  /\ \E i \in 1..Len(ret.value.categories) :
       ret.value.categories[i].refUrls = <<"g">>

---------------------------------------------------------------------------
(* src/src/cli.ts: the merge loop of a split over names that differ in     *)
(* case from existing ones                                                 *)

SplitNames == {<<"A">>, <<"B">>}

SplitCategory == [category : SplitNames, refUrls : {<<>>, <<"u1">>}]

SplitNewCategory ==
  [category : {<<"a">>, <<"b">>, <<"B">>}, refUrls : {<<"u1">>, <<"u2">>}]

InitSplit ==
  /\ CliIdle
  /\ fsWrites = <<>>
  /\ cleanupCalls = <<>>
  /\ ret = NoRet
  /\ \E C \in SeqUpTo(SplitCategory, MaxSplitCats) \ {<<>>},
        N \in SeqUpTo(SplitNewCategory, MaxSplitNew) :
       \E cur \in 1..Len(C) :
         call = [fn |-> "splitMerge", categories |-> C, cur |-> cur,
                 newCategories |-> N]

NextSplit ==
  \/ SplitMergeBegin
  \/ SplitMergeIterate
  \/ SplitMergeEnd

SpecSplit == InitSplit /\ [][NextSplit]_vars

\* no two categories have names equal ignoring case
NoCollision(cats) ==
  \A i, j \in 1..Len(cats) :
    toLowerCase(cats[i].category) = toLowerCase(cats[j].category) => i = j

\* C19: if no two categories have names equal ignoring case before a split,
\* none have after it (merge loop, then removal of the split category),
\* whatever names the oracle returned.
C19_SplitAvoidsCollisions ==
  (Returned("splitMerge") /\ NoCollision(call.categories)) =>
    NoCollision(ret.value)

\* A is split next to B; the oracle returns b (B's name in another case) and
\* a (the split category's name in another case)
C19_Witness ==
  /\ Returned("splitMerge")
  /\ Len(call.categories) = 2
  /\ NoCollision(call.categories)
  /\ call.categories[call.cur].category = <<"A">>
  /\ Len(call.newCategories) = 2
  /\ call.newCategories[1].category = <<"b">>
  /\ call.newCategories[2].category = <<"a">>
  /\ Len(ret.value) = 2

---------------------------------------------------------------------------
(* Further claims about the document assembler                             *)

WrittenPaths == [i \in 1..Len(fsWrites) |-> fsWrites[i].path]

\* C20: a call that completes has written each of its output files once,
\* each in one write of its whole content, and returns the paths written in
\* the order of the writes: one in single mode, one per category with sites,
\* in category-set order, in multiple mode.
C20_EachFileWrittenOnce ==
  (call.fn = "writeDocumentsToFile" /\ ret.status = "returned") =>
    /\ NoDup(WrittenPaths)
    /\ ret.value = WrittenPaths
    /\ Len(ret.value) = IF call.mode = "single" THEN 1
                        ELSE Len(NonEmpty(call.categories))

---------------------------------------------------------------------------
(* src/src/lib/processing.ts: the document assembler with the await of     *)
(* cleanupMarkdownDocument in two steps, the call and its settling. While  *)
(* a call is outstanding ret.at is "cleanup" and ret.outstanding holds the *)
(* documents sent.                                                         *)

OutstandingCalls ==
  IF "outstanding" \in DOMAIN ret THEN Len(ret.outstanding) ELSE 0

\* processCategoryContent starting the cleanup of the next entry without
\* awaiting the one before
CleanupStartNoAwait ==
  /\ call.fn = "writeDocumentsToFile"
  /\ ret.status = "running"
  /\ ret.at \in {"document", "cleanup"}
  /\ ret.ui + OutstandingCalls <= Len(call.categories[ret.ci].refUrls)
  /\ ~ReturnsNull(call.categories[ret.ci].refUrls[ret.ui + OutstandingCalls],
                  call.crawlResult)
  /\ LET siteData ==
           findByUrl(call.crawlResult,
                     call.categories[ret.ci].refUrls[ret.ui + OutstandingCalls])
     IN /\ cleanupCalls' = Append(cleanupCalls, siteData.markdown)
        /\ ret' = [status |-> "running", at |-> "cleanup", ci |-> ret.ci,
                   ui |-> ret.ui, content |-> ret.content,
                   documents |-> ret.documents,
                   outputFiles |-> ret.outputFiles,
                   outstanding |->
                     (IF "outstanding" \in DOMAIN ret
                      THEN ret.outstanding ELSE <<>>)
                       \o <<siteData.markdown>>]
  /\ UNCHANGED <<call, cliVars, fsWrites>>

\* processDocument calls cleanupMarkdownDocument(siteData.markdown) and
\* awaits it
CleanupStart ==
  /\ Writing("document")
  /\ ret.ui <= Len(call.categories[ret.ci].refUrls)
  /\ ~ReturnsNull(call.categories[ret.ci].refUrls[ret.ui], call.crawlResult)
  /\ LET siteData == findByUrl(call.crawlResult,
                               call.categories[ret.ci].refUrls[ret.ui])
     IN /\ cleanupCalls' = Append(cleanupCalls, siteData.markdown)
        /\ ret' = [status |-> "running", at |-> "cleanup", ci |-> ret.ci,
                   ui |-> ret.ui, content |-> ret.content,
                   documents |-> ret.documents,
                   outputFiles |-> ret.outputFiles,
                   outstanding |-> <<siteData.markdown>>]
  /\ UNCHANGED <<call, cliVars, fsWrites>>

\* the cleanup oracle answers: the document is pushed, the loop goes on
CleanupResolve ==
  /\ Writing("cleanup")
  /\ LET siteData == findByUrl(call.crawlResult,
                               call.categories[ret.ci].refUrls[ret.ui])
     IN \E cleanedContent \in CleanedTexts :
          ret' = [status |-> "running", at |-> "document", ci |-> ret.ci,
                  ui |-> ret.ui + 1, content |-> ret.content,
                  documents |->
                    Append(ret.documents,
                           [title |-> siteData.title, url |-> siteData.url,
                            content |-> cleanedContent]),
                  outputFiles |-> ret.outputFiles]
  /\ UNCHANGED <<call, cliVars, ioVars>>

\* the cleanup oracle fails: the call rejects
CleanupReject ==
  /\ Writing("cleanup")
  /\ ret' = [status |-> "thrown"]
  /\ UNCHANGED <<call, cliVars, ioVars>>

NextWriteAwait ==
  \/ WriteBegin
  \/ WriteSkipCategory
  \/ WriteEnterCategory
  \/ WriteSkipDocument
  \/ CleanupStart
  \/ CleanupResolve
  \/ CleanupReject
  \/ WriteCategoryDone
  \/ WriteReturn

SpecWriteAwait == InitWrite /\ [][NextWriteAwait]_vars

\* C21: within a call at most one cleanup call is outstanding; a cleanup call
\* starts only when none is outstanding, and it is the next one in category
\* order and, within the category, refUrls order; a call that completes has
\* made exactly one cleanup call per emitted document.
C21_CleanupCallsSerialized ==
  [][call.fn = "writeDocumentsToFile" =>
       /\ OutstandingCalls' <= 1
       /\ cleanupCalls' # cleanupCalls =>
            /\ OutstandingCalls = 0
            /\ Len(cleanupCalls) < Len(ExpectedCleanupCalls)
            /\ cleanupCalls' =
                 SubSeq(ExpectedCleanupCalls, 1, Len(cleanupCalls) + 1)
       /\ ret'.status = "returned" =>
            Len(cleanupCalls') = Len(WrittenLinks')]_vars

\* the second cleanup call of a category is outstanding, the first answered
C21_Witness ==
  /\ call.fn = "writeDocumentsToFile"
  /\ ret.status = "running"
  /\ ret.at = "cleanup"
  /\ ret.ui = 2
  /\ Len(ret.documents) = 1
  /\ cleanupCalls = <<"m1", "m2">>
  /\ OutstandingCalls = 1

---------------------------------------------------------------------------
(* src/src/lib/processing.ts: the document assembler called for an export  *)
(* of raw documents. call.cleanup is what the caller wants; the signature  *)
(* of writeDocumentsToFile (categories, identifier, crawlResult, outputDir,*)
(* openai, mode) has no parameter that receives it and processDocument     *)
(* reads none.                                                             *)

InitWriteRaw ==
  /\ CliIdle
  /\ fsWrites = <<>>
  /\ cleanupCalls = <<>>
  /\ ret = NoRet
  /\ \E C \in SeqUpTo(WriteManyCategory, MaxManyCats),
        mode \in {"single", "multiple"}, cleanup \in BOOLEAN :
       call = [fn |-> "writeDocumentsToFile", categories |-> C,
               identifier |-> [identifier |-> "id"],
               crawlResult |->
                 <<[url |-> "u1", title |-> "T1", markdown |-> "m1"]>>,
               mode |-> mode, cleanup |-> cleanup]

SpecWriteRaw == InitWriteRaw /\ [][NextWrite]_vars

\* the raw bodies of the documents emitted, in order
ExpectedRawBodies == ExpectedCleanupCalls

\* C22: in an export with cleanup disabled the cleanup oracle is never
\* invoked, and the bodies written are the raw contents of the documents.
C22_RawExportSkipsCleanup ==
  (call.fn = "writeDocumentsToFile" /\ ~call.cleanup) =>
    /\ cleanupCalls = <<>>
    /\ ret.status = "returned" => WrittenBodies = ExpectedRawBodies

---------------------------------------------------------------------------
(* src/src/lib/storage.ts, second part: the pointer-based session store    *)
(* disk.dirs maps each existing directory under historyDir to its three    *)
(* artifact files (Null: no such file); a directory is its path relative   *)
(* to historyDir, a sequence of segments, each a sequence of pieces.       *)
(* disk.pointer is the content of currentCrawlPointer.json (Null: no such  *)
(* file) and disk.clock counts the timestamps handed out.                  *)

NoFiles == [crawlResult |-> Null, categories |-> Null, identifier |-> Null]

\* identifiers as the oracle may return them: "a" and "a/b"
StoreIdentifiers == {<< <<"a">> >>, << <<"a">>, <<"b">> >>}

\* path.join(historyDir, `${identifier.identifier}-${timestamp}`)
CrawlDirOf(id, timestamp) ==
  SubSeq(id, 1, Len(id) - 1) \o <<id[Len(id)] \o <<"-", ToString(timestamp)>>>>

\* path.join(historyDir, `crawl-${timestamp}`)
TempCrawlDir(timestamp) == <<<<"crawl", "-", ToString(timestamp)>>>>

Prefixes(dir) == {SubSeq(dir, 1, k) : k \in 1..Len(dir)}

IsUnder(dir, root) ==
  Len(dir) >= Len(root) /\ SubSeq(dir, 1, Len(root)) = root

\* ensureDirectory: fs.mkdir(dir, { recursive: true }) unless it exists
ensureDirectory(dirs, dir) ==
  [d \in DOMAIN dirs \cup Prefixes(dir) |->
     IF d \in DOMAIN dirs THEN dirs[d] ELSE NoFiles]

\* fs.rm(path, { recursive: true }) of an existing directory
rmRecursive(dirs, root) ==
  LET kept == {e \in DOMAIN dirs : ~IsUnder(e, root)}
  IN IF kept = {} THEN <<>> ELSE [d \in kept |-> dirs[d]]

\* fs.readdir(historyDir)
listCrawls == {<<d[1]>> : d \in DOMAIN disk.dirs}

NoDir == [given |-> FALSE]

Dir(dir) == [given |-> TRUE, path |-> dir]

NoCurrentCrawlError == "No current crawl selected"

\* getCurrentCrawlPath throws: !pointer?.currentCrawlPath
NoCurrentCrawl ==
  IF disk.pointer = Null THEN TRUE
  ELSE JSONparse(disk.pointer).currentCrawlPath = <<>>

\* dir || (await getCurrentCrawlPath()), when that does not throw
TargetDir(dirArg) ==
  IF dirArg.given THEN dirArg.path
  ELSE JSONparse(disk.pointer).currentCrawlPath

TargetThrows(dirArg) == ~dirArg.given /\ NoCurrentCrawl

\* setCurrentCrawlPointer: saveConfig({ currentCrawlPath: historyPath })
PointerTo(dir) == JSONstringify([currentCrawlPath |-> dir])

StoreArtifacts == {"crawlResult", "categories", "identifier"}

StoredValue(kind) ==
  CASE kind = "crawlResult" -> [data |-> SessionDocs]
    [] kind = "categories" -> [categories |-> <<>>]
    [] kind = "identifier" -> [identifier |-> "a"]

\* the directories a caller may pass: the existing ones and a missing one
DirArgs == {NoDir} \cup {Dir(d) : d \in DOMAIN disk.dirs \cup {<<<<"zz">>>>}}

InitStore ==
  /\ call = [fn |-> "none"]
  /\ ret = NoRet
  /\ fsWrites = <<>>
  /\ cleanupCalls = <<>>
  /\ pc = "off"
  /\ crawlResult = Null
  /\ categories = Null
  /\ identifier = Null
  /\ disk = [dirs |-> <<>>, pointer |-> Null, clock |-> 0, saves |-> 0]
  /\ currentIndex = 0
  /\ categoryContent = <<>>
  /\ action = "none"
  /\ message = ""

storeFrame ==
  <<fsWrites, cleanupCalls, pc, crawlResult, categories, identifier,
    currentIndex, categoryContent, action, message>>


Thrown(error) == [status |-> "thrown", error |-> error]

Value(v) == [status |-> "returned", value |-> v]

\* createNewCrawl(identifier)
createNewCrawl ==
  /\ disk.clock < MaxCrawls
  /\ \E id \in StoreIdentifiers :
       LET newCrawlDir == CrawlDirOf(id, disk.clock + 1)
       IN /\ call' = [fn |-> "createNewCrawl", identifier |-> id]
          /\ disk' = [dirs |-> ensureDirectory(disk.dirs, newCrawlDir),
                      pointer |-> PointerTo(newCrawlDir),
                      clock |-> disk.clock + 1,
                      saves |-> disk.saves]
          /\ ret' = Value(newCrawlDir)
  /\ UNCHANGED storeFrame

\* saveCrawlToHistory(crawlResult)
saveCrawlToHistory ==
  /\ disk.clock < MaxCrawls
  /\ LET newCrawlDir == TempCrawlDir(disk.clock + 1)
     IN /\ call' = [fn |-> "saveCrawlToHistory",
                    crawlResult |-> StoredValue("crawlResult")]
        /\ disk' =
             [dirs |->
                [ensureDirectory(disk.dirs, newCrawlDir)
                   EXCEPT ![newCrawlDir].crawlResult =
                            JSONstringify(StoredValue("crawlResult"))],
              pointer |-> PointerTo(newCrawlDir),
              clock |-> disk.clock + 1,
              saves |-> disk.saves]
        /\ ret' = Value(newCrawlDir)
  /\ UNCHANGED storeFrame

\* deleteCrawl(crawlName): fs.rm throws if there is no such directory; the
\* pointer is unlinked if it holds path.join(historyDir, crawlName)
deleteCrawl ==
  /\ \E crawlName \in listCrawls \cup {<<<<"zz">>>>} :
       /\ call' = [fn |-> "deleteCrawl", crawlName |-> crawlName]
       /\ IF crawlName \notin DOMAIN disk.dirs
          THEN /\ ret' = Thrown("ENOENT")
               /\ UNCHANGED disk
          ELSE /\ ret' = Value(Null)
               /\ disk' =
                    [disk EXCEPT
                       !.dirs = rmRecursive(disk.dirs, crawlName),
                       !.pointer =
                         IF NoCurrentCrawl THEN disk.pointer
                         ELSE IF JSONparse(disk.pointer).currentCrawlPath
                                   = crawlName
                              THEN Null
                              ELSE disk.pointer]
  /\ UNCHANGED storeFrame

\* getCurrentCrawlPath()
getCurrentCrawlPath ==
  /\ call' = [fn |-> "getCurrentCrawlPath"]
  /\ ret' = IF NoCurrentCrawl THEN Thrown(NoCurrentCrawlError)
            ELSE Value(JSONparse(disk.pointer).currentCrawlPath)
  /\ UNCHANGED <<disk, storeFrame>>

\* the directories a caller passes to a save
SaveDirArgs == {NoDir} \cup {Dir(d) : d \in DOMAIN disk.dirs}

\* ensureDirectory(targetDir), then fs.writeFile of the stringified value
WriteArtifact(targetDir, kind) ==
  [disk EXCEPT
     !.dirs = [ensureDirectory(disk.dirs, targetDir)
                 EXCEPT ![targetDir][kind] = JSONstringify(StoredValue(kind))],
     !.saves = disk.saves + 1]

\* saveCrawlResult(crawlResult, dir?)
saveCrawlResult ==
  /\ disk.saves < MaxSaves
  /\ \E dirArg \in SaveDirArgs :
       /\ call' = [fn |-> "saveCrawlResult", dir |-> dirArg]
       /\ IF TargetThrows(dirArg)
          THEN ret' = Thrown(NoCurrentCrawlError) /\ UNCHANGED disk
          ELSE /\ ret' = Value(Null)
               /\ disk' = WriteArtifact(TargetDir(dirArg), "crawlResult")
  /\ UNCHANGED storeFrame

\* saveCategories(categories, dir?)
saveCategories ==
  /\ disk.saves < MaxSaves
  /\ \E dirArg \in SaveDirArgs :
       /\ call' = [fn |-> "saveCategories", dir |-> dirArg]
       /\ IF TargetThrows(dirArg)
          THEN ret' = Thrown(NoCurrentCrawlError) /\ UNCHANGED disk
          ELSE /\ ret' = Value(Null)
               /\ disk' = WriteArtifact(TargetDir(dirArg), "categories")
  /\ UNCHANGED storeFrame

\* saveIdentifier(identifier, dir?)
saveIdentifier ==
  /\ disk.saves < MaxSaves
  /\ \E dirArg \in SaveDirArgs :
       /\ call' = [fn |-> "saveIdentifier", dir |-> dirArg]
       /\ IF TargetThrows(dirArg)
          THEN ret' = Thrown(NoCurrentCrawlError) /\ UNCHANGED disk
          ELSE /\ ret' = Value(Null)
               /\ disk' = WriteArtifact(TargetDir(dirArg), "identifier")
  /\ UNCHANGED storeFrame

\* fs.readFile of the artifact in targetDir throws
ReadFails(targetDir, kind) ==
  IF targetDir \notin DOMAIN disk.dirs THEN TRUE
  ELSE disk.dirs[targetDir][kind] = Null

\* the try block of a load: read and parse, null on any failure
ReadArtifact(targetDir, kind) ==
  IF ReadFails(targetDir, kind) THEN Value(Null)
  ELSE Value(JSONparse(disk.dirs[targetDir][kind]))

\* a load as written: targetDir is computed before the try block
LoadResult(dirArg, kind) ==
  IF TargetThrows(dirArg) THEN Thrown(NoCurrentCrawlError)
  ELSE ReadArtifact(TargetDir(dirArg), kind)

\* loadCrawlResult(dir?)
loadCrawlResult ==
  /\ \E dirArg \in DirArgs :
       /\ call' = [fn |-> "loadCrawlResult", kind |-> "crawlResult",
                   dir |-> dirArg]
       /\ ret' = LoadResult(dirArg, "crawlResult")
  /\ UNCHANGED <<disk, storeFrame>>

\* loadCategories(dir?)
loadCategories ==
  /\ \E dirArg \in DirArgs :
       /\ call' = [fn |-> "loadCategories", kind |-> "categories",
                   dir |-> dirArg]
       /\ ret' = LoadResult(dirArg, "categories")
  /\ UNCHANGED <<disk, storeFrame>>

\* loadIdentifier(dir?)
loadIdentifier ==
  /\ \E dirArg \in DirArgs :
       /\ call' = [fn |-> "loadIdentifier", kind |-> "identifier",
                   dir |-> dirArg]
       /\ ret' = LoadResult(dirArg, "identifier")
  /\ UNCHANGED <<disk, storeFrame>>

NextStore ==
  \/ createNewCrawl
  \/ saveCrawlToHistory
  \/ deleteCrawl
  \/ getCurrentCrawlPath
  \/ saveCrawlResult
  \/ saveCategories
  \/ saveIdentifier
  \/ loadCrawlResult
  \/ loadCategories
  \/ loadIdentifier

SpecStore == InitStore /\ [][NextStore]_vars

LoadFns == {"loadCrawlResult", "loadCategories", "loadIdentifier"}

\* the directory a load reads when none is passed and a crawl is selected
LoadedDir == IF call.dir.given THEN call.dir.path
             ELSE JSONparse(disk.pointer).currentCrawlPath

\* the artifact a load asks for is stored in the directory it reads
Found ==
  /\ call.dir.given \/ disk.pointer # Null
  /\ LoadedDir \in DOMAIN disk.dirs
  /\ disk.dirs[LoadedDir][call.kind] # Null

\* C23: loadCrawlResult, loadCategories and loadIdentifier never raise: each
\* returns the stored value when the artifact is found and null when it is
\* not, with a directory passed and with the current crawl used by default,
\* no current crawl being selected included.
C23_LoadsReturnValueOrNull ==
  call.fn \in LoadFns =>
    /\ ret.status = "returned"
    /\ ret.value = IF Found THEN StoredValue(call.kind) ELSE Null

PointerNamesExistingCrawl ==
  disk.pointer # Null =>
    JSONparse(disk.pointer).currentCrawlPath \in DOMAIN disk.dirs

\* C29: after any sequence of createNewCrawl, saveCrawlToHistory and
\* deleteCrawl the pointer, when set, names an existing crawl directory;
\* deleteCrawl of the current crawl clears the pointer, so that
\* getCurrentCrawlPath then fails with "No current crawl selected", and
\* deleteCrawl of another crawl leaves the pointer unchanged.
C29_PointerNamesExistingCrawl ==
  [][/\ PointerNamesExistingCrawl'
     /\ (call'.fn = "deleteCrawl" /\ ret'.status = "returned"
         /\ disk.pointer # Null) =>
          IF JSONparse(disk.pointer).currentCrawlPath = call'.crawlName
          THEN disk'.pointer = Null
          ELSE disk'.pointer = disk.pointer
     /\ (call'.fn = "getCurrentCrawlPath" /\ disk.pointer = Null) =>
          ret' = Thrown(NoCurrentCrawlError)]_vars

\* a prune or a split of the stored session has been persisted
MutationPersisted == disk.finalizedCategories # Null

\* C24: mutations survive reopening: once a prune or a split has been
\* persisted, continueFromCurrentCrawl loads a category set equal to the
\* sanitized set as it was after the last mutation.
C24_MutationsSurviveReopen ==
  [][(pc = "continue" /\ pc' = "processing" /\ MutationPersisted) =>
       categories'.categories =
         sanitizeCategories(JSONparse(disk.categories).categories,
                            crawlResult'.data)]_vars

\* the URLs that the categories of a set refer to
UrlsOf(cats) == UNION {Range(cats[i].refUrls) : i \in 1..Len(cats)}

\* C25: no URL returned by the oracle is lost in a split: every URL of every
\* returned category is a refUrls entry of some category of the resulting
\* set, also when a returned name equals, ignoring case, the name of the
\* category being split.
C25_SplitKeepsReturnedUrls ==
  Returned("splitMerge") => UrlsOf(call.newCategories) \subseteq UrlsOf(ret.value)

\* A, holding u1, is split next to B; the oracle returns a category a (the
\* name of the split category in another case) holding u2
C25_Witness ==
  /\ Returned("splitMerge")
  /\ Len(call.categories) = 2
  /\ call.categories[call.cur] = [category |-> <<"A">>, refUrls |-> <<"u1">>]
  /\ call.newCategories = <<[category |-> <<"a">>, refUrls |-> <<"u2">>]>>
  /\ "u2" \in UrlsOf(ret.value)

\* the entries of cats at the positions of keep, in order
RECURSIVE Pick(_, _, _)
Pick(cats, keep, i) ==
  IF i > Len(cats) THEN <<>>
  ELSE IF i \in keep THEN <<cats[i]>> \o Pick(cats, keep, i + 1)
  ELSE Pick(cats, keep, i + 1)

\* after consists of entries of before that remain, each entry other than
\* the one at cur with the refUrls it had
OnlyDisplayedChanged(before, cur, after) ==
  \E keep \in SUBSET (1..Len(before)) :
    \E refs \in SubSeqs(before[cur].refUrls) :
      after = Pick([before EXCEPT ![cur].refUrls = refs], keep, 1)

\* C26: an interactive prune of the displayed category changes only that
\* category: category names not being unique, every other category entry
\* that remains in the set after the prune step has the refUrls it had
\* before.
C26_PruneChangesOnlyDisplayed ==
  [][(pc = "view" /\ action' = "prune"
      /\ message' = "Sites pruned successfully!") =>
       OnlyDisplayedChanged(categories.categories, currentIndex + 1,
                            categories'.categories)]_vars

\* the cursor is on a category and the display list is the rendering of the
\* category set
ValidView ==
  /\ 0 <= currentIndex
  /\ currentIndex < Len(categories.categories)
  /\ Len(categoryContent) = Len(categories.categories)
  /\ \A i \in 1..Len(categoryContent) :
       categoryContent[i] =
         RenderCategory(categories.categories[i], crawlResult.data)

\* the step ends with a page of the view displayed: the view loop goes on,
\* or the view was opened on an empty set and failed after printing its page
DisplaysPage ==
  \/ pc' = "view"
  \/ pc = "processing" /\ message' = PageOneOfNone

\* C27: every time viewExpandedCategories displays a page the cursor is valid
\* (0 <= currentIndex < number of categories) and categoryContent has one
\* entry per category of the current set in the same order, from entry and
\* after next, prev, prune and split; the loop exits when the set becomes
\* empty.
C27_ViewCursorValid ==
  [][/\ DisplaysPage => ValidView'
     /\ (pc = "view" /\ Len(categories'.categories) = 0) => pc' # "view"]_vars

\* the step is a split that failed
SplitFailed ==
  pc = "view" /\ action' = "split" /\ message' = "Failed to split category:"

\* C28: a failed split changes nothing: when categorizeSites throws (the
\* oracle fails, or the category has no URL) the in-memory category set and
\* the persisted artifacts are what they were, and the view loop continues on
\* the same category.
C28_FailedSplitChangesNothing ==
  [][SplitFailed =>
       /\ categories' = categories
       /\ disk' = disk
       /\ pc' = "view"
       /\ currentIndex' = currentIndex
       /\ categoryContent' = categoryContent]_vars

\* the split of a category with no URL has failed, in a session of two
\* categories whose artifacts are stored
C28_Witness ==
  /\ pc = "view"
  /\ action = "split"
  /\ message = "Failed to split category:"
  /\ Len(categories.categories) = 2
  /\ Len(currentCategory.refUrls) = 0
  /\ disk.categories # Null

----------------------------------------------------------------------------
(* src/src/lib/storage.ts, the store with a current-crawl directory and a  *)
(* history directory: disk.current is the current-crawl directory (its     *)
(* files, or Absent), disk.history the directories under the history       *)
(* directory, disk.clock the time of the last archive. Two archives never  *)
(* complete within one millisecond (a crawl lies between them), so each    *)
(* archive reads a later time than the one before.                         *)

Absent == [absent |-> TRUE]

ArchiveIdentifiers == {<< <<"a">> >>, << <<"b">> >>, << <<"a">>, <<"b">> >>}

\* storage.loadIdentifier() of the current-crawl directory
loadCurrentIdentifier ==
  IF disk.current = Absent THEN Null
  ELSE IF disk.current.identifier = Null THEN Null
  ELSE JSONparse(disk.current.identifier)

\* getCurrentCrawlIdIfAny of this store: identifier?.identifier || null
CurrentCrawlId ==
  IF loadCurrentIdentifier = Null THEN Null
  ELSE [id |-> loadCurrentIdentifier.identifier]

\* ensureDirectory(dir) of the current-crawl directory
EnsuredCurrent == IF disk.current = Absent THEN NoFiles ELSE disk.current

InitArchive ==
  /\ call = [fn |-> "none"]
  /\ ret = NoRet
  /\ fsWrites = <<>>
  /\ cleanupCalls = <<>>
  /\ pc = "off"
  /\ crawlResult = Null
  /\ categories = Null
  /\ identifier = Null
  /\ disk = [current |-> Absent, history |-> <<>>, clock |-> 0]
  /\ currentIndex = 0
  /\ categoryContent = <<>>
  /\ action = "none"
  /\ message = ""

\* saveCrawlResult(crawlResult) into the current-crawl directory
SaveCrawlResultToCurrent ==
  /\ call' = [fn |-> "saveCrawlResult"]
  /\ ret' = Value(Null)
  /\ disk' = [disk EXCEPT
                !.current = [EnsuredCurrent EXCEPT
                               !.crawlResult =
                                 JSONstringify(StoredValue("crawlResult"))]]
  /\ UNCHANGED storeFrame

\* saveCategories(categories) into the current-crawl directory
SaveCategoriesToCurrent ==
  /\ call' = [fn |-> "saveCategories"]
  /\ ret' = Value(Null)
  /\ disk' = [disk EXCEPT
                !.current = [EnsuredCurrent EXCEPT
                               !.categories =
                                 JSONstringify(StoredValue("categories"))]]
  /\ UNCHANGED storeFrame

\* saveIdentifier(identifier) into the current-crawl directory
SaveIdentifierToCurrent ==
  /\ \E id \in ArchiveIdentifiers :
       /\ call' = [fn |-> "saveIdentifier", identifier |-> id]
       /\ disk' = [disk EXCEPT
                     !.current = [EnsuredCurrent EXCEPT
                                    !.identifier =
                                      JSONstringify([identifier |-> id])]]
  /\ ret' = Value(Null)
  /\ UNCHANGED storeFrame

\* fs.rename(currentCrawlDir, archiveDir) throws: the parent of archiveDir
\* does not exist, or archiveDir exists and is not empty
RenameFails(archiveDir) ==
  \/ Len(archiveDir) > 1
       /\ SubSeq(archiveDir, 1, Len(archiveDir) - 1) \notin DOMAIN disk.history
  \/ IF archiveDir \in DOMAIN disk.history
     THEN disk.history[archiveDir] # NoFiles
     ELSE FALSE

\* the archive that does not create the current-crawl directory again
CurrentAfterArchiveMissing == Absent

\* ensureDirectory(currentCrawlDir) after the rename
CurrentAfterArchive == NoFiles

\* archiveCrawl of cli.ts: nothing to do without a stored identifier;
\* otherwise storage.archiveCrawl renames the current-crawl directory to
\* history/{identifier}-{timestamp}, creates it again, empty, and the path of
\* the archive is reported
archiveCrawl ==
  /\ disk.clock < MaxArchives
  /\ call' = [fn |-> "archiveCrawl"]
  /\ IF loadCurrentIdentifier = Null
     THEN /\ ret' = Value(Null)
          /\ UNCHANGED disk
     ELSE LET archiveDir == CrawlDirOf(loadCurrentIdentifier.identifier,
                                       disk.clock + 1)
          IN IF RenameFails(archiveDir)
             THEN /\ ret' = Thrown("rename")
                  /\ disk' = [disk EXCEPT !.clock = disk.clock + 1]
             ELSE /\ ret' = Value([archiveDir |-> archiveDir])
                  /\ disk' =
                       [current |-> CurrentAfterArchive,
                        history |->
                          [d \in DOMAIN disk.history \cup {archiveDir} |->
                             IF d = archiveDir THEN disk.current
                             ELSE disk.history[d]],
                        clock |-> disk.clock + 1]
  /\ UNCHANGED storeFrame

\* listArchivedCrawls(): fs.readdir(historyDir)
listArchivedCrawls == {<<d[1]>> : d \in DOMAIN disk.history}

\* deleteArchivedCrawl(archiveName)
deleteArchivedCrawl ==
  /\ \E archiveName \in listArchivedCrawls :
       /\ call' = [fn |-> "deleteArchivedCrawl", archiveName |-> archiveName]
       /\ disk' = [disk EXCEPT
                     !.history = rmRecursive(disk.history, archiveName)]
  /\ ret' = Value(Null)
  /\ UNCHANGED storeFrame

\* deleteCurrentCrawl(): fs.rm throws if the directory does not exist
deleteCurrentCrawl ==
  /\ call' = [fn |-> "deleteCurrentCrawl"]
  /\ IF disk.current = Absent
     THEN /\ ret' = Thrown("ENOENT")
          /\ UNCHANGED disk
     ELSE /\ ret' = Value(Null)
          /\ disk' = [disk EXCEPT !.current = NoFiles]
  /\ UNCHANGED storeFrame

NextArchive ==
  \/ SaveCrawlResultToCurrent
  \/ SaveCategoriesToCurrent
  \/ SaveIdentifierToCurrent
  \/ archiveCrawl
  \/ deleteArchivedCrawl
  \/ deleteCurrentCrawl

SpecArchive == InitArchive /\ [][NextArchive]_vars

\* the step is an archiveCrawl that completed and moved a session
ArchiveCompleted ==
  /\ call'.fn = "archiveCrawl"
  /\ ret'.status = "returned"
  /\ ret'.value # Null

\* C30: archiveCrawl moves the current session into history and leaves an
\* empty current session: after it completes the history has a new entry
\* named {identifier}-{timestamp} holding exactly the artifacts that were in
\* the current-crawl directory, the current-crawl directory exists and is
\* empty, so that no current crawl identifier is reported, and the sessions
\* archived before are unchanged.
C30_ArchiveMovesSession ==
  [][ArchiveCompleted =>
       /\ ret'.value.archiveDir = CrawlDirOf(loadCurrentIdentifier.identifier, disk'.clock)
       /\ ret'.value.archiveDir \notin DOMAIN disk.history
       /\ ret'.value.archiveDir \in DOMAIN disk'.history
       /\ disk'.history[ret'.value.archiveDir] = disk.current
       /\ disk'.current = NoFiles
       /\ CurrentCrawlId' = Null
       /\ \A d \in DOMAIN disk.history :
            d \in DOMAIN disk'.history /\ disk'.history[d] = disk.history[d]
       /\ DOMAIN disk'.history = DOMAIN disk.history \cup {ret'.value.archiveDir}]_vars

\* a second session has been archived: the history holds two entries and the
\* current-crawl directory is empty
C30_Witness ==
  /\ call.fn = "archiveCrawl"
  /\ ret.status = "returned"
  /\ ret.value # Null
  /\ Cardinality(DOMAIN disk.history) = 2
  /\ disk.history[ret.value.archiveDir].crawlResult # Null
  /\ disk.current = NoFiles

=============================================================================
